---- MODULE Spec2Model ----
(***************************************************************************)
(* Model of the story-generation core of Pokemon_Novel:                    *)
(*   core/cot_engine.py      reviewer-output parser and CoTEngine          *)
(*   core/prompt_templates.py format_prompt and the templates' placeholders*)
(*   core/llm_services.py    the completion client, seen from the engine   *)
(*                                                                         *)
(* Texts are finite sequences of tokens.  A token stands for one fixed     *)
(* literal of the source (a marker, a sentinel phrase, one whitespace      *)
(* character, one ordinary character), so that str.find, slicing, strip    *)
(* and startswith are modelled by what they do on the sequence.            *)
(***************************************************************************)
EXTENDS Integers, Sequences, FiniteSets, TLC

VARIABLES
    p_pc,        \* parser harness: "off", "idle" before the call, "parsed" after
    p_raw,       \* raw_output handed to _parse_reviewer_output
    p_orig,      \* original_content_if_no_revision handed to it
    p_out,       \* the ReviewerOutput it returned (NoOutput before the call)
    store,       \* prompt template store: template name -> declared placeholders
    inv,         \* the invocations of public CoTEngine operations, by id
    outcomes,    \* per invocation, how its completion calls ended, in order
    n_pc,        \* name-formatter harness: "off", "idle", "formatted"
    n_in,        \* user_input handed to format_pokemon_names_for_prompt
    n_out,       \* the text it returned
    env_key,     \* OPENAI_API_KEY in the environment (None when absent)
    settings,    \* config.settings once imported
    ctor,        \* the LLMService construction attempted, its arguments and exception
    llm_service, \* the LLMService object, once constructed
    g_call,      \* the generate_text call under way or last finished
    g_done,      \* generate_text calls finished
    engine,      \* the CoTEngine object, holding the service it was constructed with
    sent,        \* the requests sent to the provider, in the order sent, each with its invocation
    app,         \* the globals of ui/app.py that initialize_services sets
    h,           \* the handler events, in the order the framework started them
    served       \* handler events started so far

parserVars == <<p_pc, p_raw, p_orig, p_out>>
engineVars == <<store, inv, outcomes>>
namesVars == <<n_pc, n_in, n_out>>
serviceVars == <<env_key, settings, ctor, llm_service, g_call, g_done>>
sharedVars == <<engine, sent>>
uiVars == <<app, h, served>>

\* The variables of the components a parser or engine run does not touch.
otherVars == <<uiVars, sharedVars, serviceVars, namesVars>>

vars == <<p_pc, p_raw, p_orig, p_out, store, inv, outcomes,
          n_pc, n_in, n_out,
          env_key, settings, ctor, llm_service, g_call, g_done,
          engine, sent,
          app, h, served>>

----------------------------------------------------------------------------
(* Tokens.                                                                  *)
(*   "FBh"  評估回饋:  (half-width colon)   "FBf"  評估回饋： (full-width)     *)
(*   "PLh"  修訂後故事大綱:                  "PLf"  修訂後故事大綱：            *)
(*   "STh"  修訂後完整故事:                  "STf"  修訂後完整故事：            *)
(*   "S1"   原故事大綱已達標                 "S2"   原故完整事已達標            *)
(*   "WS"   one whitespace character         "a"    one ordinary character   *)
(*   "NL"   one newline character (whitespace that also ends a line)         *)

Alphabet == {"FBh", "FBf", "PLh", "PLf", "STh", "STf", "S1", "S2", "WS", "a"}

\* Longest raw_output enumerated for the parser.
MaxRawLen == 4

Texts(n) == UNION {[1..k -> Alphabet] : k \in 0..n}

\* Contents handed over as original_content_if_no_revision: empty,
\* whitespace-only, and a text ("o") that no raw_output contains.
Originals == {<< >>, <<"WS">>, <<"o">>, <<"o", "WS", "o">>}

NoOutput == [none |-> TRUE]

\* A component that takes no part in a run stays as it is here.
ParserOff == p_pc = "off" /\ p_raw = << >> /\ p_orig = << >> /\ p_out = NoOutput

EngineOff == store = << >> /\ inv = << >> /\ outcomes = << >>

NamesOff == n_pc = "off" /\ n_in = << >> /\ n_out = << >>

ServiceOff ==
    /\ env_key = << >> /\ settings = [loaded |-> FALSE]
    /\ ctor = [attempted |-> FALSE] /\ llm_service = [constructed |-> FALSE]
    /\ g_call = [pc |-> "none"] /\ g_done = 0

SharedOff == engine = [constructed |-> FALSE] /\ sent = << >>

UiOff == app = [ready |-> FALSE] /\ h = << >> /\ served = 0

OtherOff == NamesOff /\ ServiceOff /\ SharedOff /\ UiOff

----------------------------------------------------------------------------
(* Python str operations on token sequences (0-based offsets, -1 = absent). *)

\* s[i:j] for 0 <= i; the slice is empty when i >= j.
Slice(s, i, j) ==
    LET hi == IF j > Len(s) THEN Len(s) ELSE j
    IN  SubSeq(s, i + 1, hi)

\* s[i:]
SliceFrom(s, i) == Slice(s, i, Len(s))

\* s.startswith(prefix)
StartsWith(s, prefix) ==
    /\ Len(prefix) <= Len(s)
    /\ \A k \in 1..Len(prefix) : s[k] = prefix[k]

\* s.find(sub): offset of the leftmost occurrence, -1 when there is none.
Find(s, sub) ==
    LET hits == {i \in 0..(Len(s) - Len(sub)) : StartsWith(SliceFrom(s, i), sub)}
    IN  IF hits = {} THEN -1 ELSE CHOOSE i \in hits : \A j \in hits : i <= j

\* sub in s
Contains(s, sub) == Find(s, sub) # -1

IsSpace(t) == t \in {"WS", "NL"}

\* s.strip(): leading and trailing whitespace removed.
Strip(s) ==
    LET keep == {i \in 1..Len(s) : ~IsSpace(s[i])}
    IN  IF keep = {} THEN << >>
        ELSE LET lo == CHOOSE i \in keep : \A j \in keep : i <= j
                 hi == CHOOSE i \in keep : \A j \in keep : j <= i
             IN  SubSeq(s, lo, hi)

\* Python truthiness of a str
Truthy(s) == s # << >>

----------------------------------------------------------------------------
(* core/cot_engine.py: _parse_reviewer_output                               *)

feedback_marker == <<"FBh">>
plan_content_marker == <<"PLh">>
story_content_marker == <<"STh">>
SentinelPlan == <<"S1">>
SentinelStory == <<"S2">>

\* The three feedback texts the parser writes itself.
FeedbackNoRevisionNeeded == <<"MSG_NO_REVISION_NEEDED">>
FeedbackNoMarkers == <<"MSG_NO_MARKERS_BUT_CONTENT">>
FeedbackBadFormat == <<"MSG_BAD_FORMAT_OR_EMPTY">>

ReviewerOutput(f, r) == [feedback |-> f, revised_content |-> r]

\* lines 18-20: the plan marker unless the raw text lacks it
content_marker(raw_output) ==
    IF ~Contains(raw_output, plan_content_marker)
    THEN story_content_marker
    ELSE plan_content_marker

\* Only the outline's sentinel phrase is recognised.
BeginsWithPlanSentinelOnly(parsed_content) ==
    StartsWith(parsed_content, SentinelPlan)

\* parsed_content.startswith(...) for either sentinel phrase (lines 36, 38)
BeginsWithSentinel(parsed_content) ==
    \/ StartsWith(parsed_content, SentinelPlan)
    \/ StartsWith(parsed_content, SentinelStory)

\* The feedback taken without the strip.
ExtractFeedbackUntrimmed(raw_output, feedback_start, content_start) ==
    IF feedback_start # -1
    THEN IF content_start # -1
         THEN Slice(raw_output, feedback_start + Len(feedback_marker),
                    content_start)
         ELSE SliceFrom(raw_output, feedback_start + Len(feedback_marker))
    ELSE << >>

\* The feedback taken to the end of the text whether or not a content marker
\* follows.
ExtractFeedbackToEnd(raw_output, feedback_start, content_start) ==
    IF feedback_start # -1
    THEN Strip(SliceFrom(raw_output, feedback_start + Len(feedback_marker)))
    ELSE << >>

\* lines 28-32: the text after the feedback marker, up to the content marker
\* when there is one
ExtractFeedback(raw_output, feedback_start, content_start) ==
    IF feedback_start # -1
    THEN IF content_start # -1
         THEN Strip(Slice(raw_output, feedback_start + Len(feedback_marker),
                          content_start))
         ELSE Strip(SliceFrom(raw_output, feedback_start + Len(feedback_marker)))
    ELSE << >>

\* The content branch without the test that parsed_content is non-empty.
ReviseFromContentUnchecked(parsed_content, feedback, original) ==
    IF ~BeginsWithSentinel(parsed_content)
    THEN ReviewerOutput(feedback, parsed_content)
    ELSE ReviewerOutput(IF ~Truthy(feedback) THEN FeedbackNoRevisionNeeded
                                             ELSE feedback,
                        original)

\* The content branch writing its own message over a feedback the reviewer
\* did give.
ReviseFromContentAlwaysCanned(parsed_content, feedback, original) ==
    IF Truthy(parsed_content) /\ ~BeginsWithSentinel(parsed_content)
    THEN ReviewerOutput(feedback, parsed_content)
    ELSE IF BeginsWithSentinel(parsed_content)
    THEN ReviewerOutput(FeedbackNoRevisionNeeded, original)
    ELSE ReviewerOutput(feedback, original)

\* lines 35-42: a content marker was found
ReviseFromContent(parsed_content, feedback, original) ==
    IF Truthy(parsed_content) /\ ~BeginsWithSentinel(parsed_content)
    THEN ReviewerOutput(feedback, parsed_content)
    ELSE IF BeginsWithSentinel(parsed_content)
    THEN ReviewerOutput(IF ~Truthy(feedback) THEN FeedbackNoRevisionNeeded
                                             ELSE feedback,
                        original)
    ELSE ReviewerOutput(feedback, original)

\* The neither-marker branch returning the raw text without the strip.
ReviseWithoutMarkersUntrimmed(raw_output, original) ==
    IF Truthy(Strip(raw_output))
    THEN ReviewerOutput(FeedbackNoMarkers, raw_output)
    ELSE ReviewerOutput(FeedbackBadFormat, original)

\* The neither-marker branch without the test for an empty raw text.
ReviseWithoutMarkersNoEmptyCheck(raw_output, original) ==
    ReviewerOutput(FeedbackNoMarkers, Strip(raw_output))

\* lines 43-51: neither marker was found
ReviseWithoutMarkers(raw_output, original) ==
    IF Truthy(Strip(raw_output))
    THEN ReviewerOutput(FeedbackNoMarkers, Strip(raw_output))
    ELSE ReviewerOutput(FeedbackBadFormat, original)

\* A parser that reads the two sections in either order: with the content
\* marker first, the content ends at the feedback marker and the feedback is
\* the text after it.
_parse_reviewer_output_either_order(raw_output, original_content_if_no_revision) ==
    LET cm == content_marker(raw_output)
        feedback_start == Find(raw_output, feedback_marker)
        content_start == Find(raw_output, cm)
        swapped == content_start # -1 /\ content_start < feedback_start
        feedback ==
            IF swapped
            THEN Strip(SliceFrom(raw_output, feedback_start + Len(feedback_marker)))
            ELSE ExtractFeedback(raw_output, feedback_start, content_start)
        parsed_content ==
            IF swapped
            THEN Strip(Slice(raw_output, content_start + Len(cm), feedback_start))
            ELSE Strip(SliceFrom(raw_output, content_start + Len(cm)))
    IN  IF content_start # -1
        THEN ReviseFromContent(parsed_content, feedback,
                               original_content_if_no_revision)
        ELSE IF feedback_start = -1
        THEN ReviseWithoutMarkers(raw_output, original_content_if_no_revision)
        ELSE ReviewerOutput(feedback, original_content_if_no_revision)

_parse_reviewer_output(raw_output, original_content_if_no_revision) ==
    LET cm == content_marker(raw_output)
        feedback_start == Find(raw_output, feedback_marker)
        content_start == Find(raw_output, cm)
        feedback == ExtractFeedback(raw_output, feedback_start, content_start)
    IN  IF content_start # -1
        THEN ReviseFromContent(
                 Strip(SliceFrom(raw_output, content_start + Len(cm))),
                 feedback, original_content_if_no_revision)
        ELSE IF feedback_start = -1
        THEN ReviseWithoutMarkers(raw_output, original_content_if_no_revision)
        ELSE ReviewerOutput(feedback, original_content_if_no_revision)

----------------------------------------------------------------------------
(* The parser applied to every bounded input.                               *)

ParserInit ==
    /\ p_pc = "idle"
    /\ p_raw \in Texts(MaxRawLen)
    /\ p_orig \in Originals
    /\ p_out = NoOutput
    /\ EngineOff
    /\ OtherOff

Parse ==
    /\ p_pc = "idle"
    /\ p_out' = _parse_reviewer_output(p_raw, p_orig)
    /\ p_pc' = "parsed"
    /\ UNCHANGED <<p_raw, p_orig>>
    /\ UNCHANGED <<engineVars, otherVars>>

ParserNext == Parse

ParserSpec == ParserInit /\ [][ParserNext]_vars

----------------------------------------------------------------------------
(* core/pokemon_knowledge_base.py: the name formatter.  A names text is a   *)
(* sequence of name tokens, "," and "WS".                                   *)

\* _pokemon_dict: zh_name -> en_name, for the names the table lists.
PokemonTable == [zh_pikachu |-> "en_pikachu", zh_eevee |-> "en_eevee"]

\* A names text, and a list of them.
NamesText == Seq(STRING)
NamesList == Seq(NamesText)

\* user_input.split(','): the pieces between the commas, in order.
SplitComma[s \in NamesText] ==
    LET c == Find(s, <<",">>)
    IN  IF c = -1 THEN <<s>>
        ELSE <<Slice(s, 0, c)>> \o SplitComma[SliceFrom(s, c + 1)]

\* [name.strip() for name in pieces]
StripEach[pieces \in NamesList] ==
    IF pieces = << >> THEN << >>
    ELSE <<Strip(Head(pieces))>> \o StripEach[Tail(pieces)]

\* One stripped name: "<zh> (<en>)" on a hit, the name unchanged on a miss.
FormatName(name) ==
    IF Len(name) = 1 /\ name[1] \in DOMAIN PokemonTable
    THEN <<name[1], "WS", "(", PokemonTable[name[1]], ")">>
    ELSE name

\* The loop over names: each one formatted, in order.
FormatEach[names \in NamesList] ==
    IF names = << >> THEN << >>
    ELSE <<FormatName(Head(names))>> \o FormatEach[Tail(names)]

\* ', '.join(parts)
JoinCommaSpace[parts \in NamesList] ==
    IF parts = << >> THEN << >>
    ELSE IF Len(parts) = 1 THEN parts[1]
    ELSE parts[1] \o <<",", "WS">> \o JoinCommaSpace[Tail(parts)]

\* The formatter looking a name up before it is stripped.
format_pokemon_names_lookup_unstripped(user_input) ==
    JoinCommaSpace[SelectSeq(StripEach[FormatEach[SplitComma[user_input]]], Truthy)]

format_pokemon_names_for_prompt(user_input) ==
    JoinCommaSpace[FormatEach[SelectSeq(StripEach[SplitComma[user_input]], Truthy)]]

----------------------------------------------------------------------------
(* The name formatter applied to every bounded input.                       *)

NameTokens == {"zh_pikachu", "zh_eevee", "zh_unlisted", ",", "WS"}

\* Longest user_input enumerated for the formatter.
MaxNamesLen == 4

NamesInputs == UNION {[1..k -> NameTokens] : k \in 0..MaxNamesLen}

NamesInit ==
    /\ n_pc = "idle"
    /\ n_in \in NamesInputs
    /\ n_out = << >>
    /\ ParserOff /\ EngineOff /\ ServiceOff /\ SharedOff /\ UiOff

FormatNames ==
    /\ n_pc = "idle"
    /\ n_out' = format_pokemon_names_for_prompt(n_in)
    /\ n_pc' = "formatted"
    /\ UNCHANGED n_in
    /\ UNCHANGED <<parserVars, engineVars, serviceVars, sharedVars, uiVars>>

NamesNext == FormatNames

NamesSpec == NamesInit /\ [][NamesNext]_vars

----------------------------------------------------------------------------
(* core/prompt_templates.py: the placeholders each template declares, and  *)
(* format_prompt.                                                           *)

SourceTemplates ==
    [STORY_PLANNING_PROMPT_TEMPLATE |->
        {"theme", "genre", "pokemon_names", "synopsis", "include_abilities"},
     STORY_PLAN_REVIEW_REVISE_PROMPT_TEMPLATE |->
        {"theme", "genre", "pokemon_names", "synopsis", "include_abilities",
         "story_plan_to_review"},
     STORY_GENERATION_FROM_PLAN_PROMPT_TEMPLATE |->
        {"story_plan", "theme", "genre", "pokemon_names", "synopsis",
         "include_abilities"},
     FULL_STORY_REVIEW_REVISE_PROMPT_TEMPLATE |->
        {"theme", "genre", "pokemon_names", "synopsis", "include_abilities",
         "story_plan", "full_story_to_review"},
     INPUT_REFINEMENT_SUGGESTION_PROMPT_TEMPLATE |->
        {"theme", "genre", "pokemon_names",
         "pokemon_names_for_suggestion_context", "synopsis",
         "include_abilities"},
     SYNOPSIS_ELABORATION_PROMPT_TEMPLATE |->
        {"theme", "genre", "pokemon_names", "synopsis"},
     CHARACTER_DEVELOPMENT_PROMPT_TEMPLATE |->
        {"theme", "genre", "pokemon_names", "synopsis", "story_plan"},
     SETTING_DETAIL_PROMPT_TEMPLATE |->
        {"theme", "genre", "synopsis", "story_plan"},
     PLOT_TWIST_SUGGESTION_PROMPT_TEMPLATE |->
        {"story_plan", "section_to_twist"},
     STYLE_TONE_TUNING_PROMPT_TEMPLATE |->
        {"story_text_to_tune", "theme", "genre", "desired_style_tone"},
     STORY_BRANCHING_SUGGESTION_PROMPT_TEMPLATE |->
        {"current_story_segment", "theme", "genre", "story_plan"}]

TemplateNames == DOMAIN SourceTemplates

\* A store whose template t has gained a placeholder the engine does not
\* supply ("if prompt template placeholders change and code isn't updated").
Drifted(t) == [SourceTemplates EXCEPT ![t] = @ \cup {"undeclared"}]

NoExc == [type |-> "None"]

\* An exception as the engine sees it: its type, the tag and stage of its
\* message, and its __cause__.
Exc(type, tag, stage, cause) ==
    [type |-> type, tag |-> tag, stage |-> stage, cause |-> cause]

\* A template as format_prompt receives it: its name stands for its text,
\* its placeholders are those the store declares for it.
Template(t) == [name |-> t, placeholders |-> store[t]]

\* template.format(**kwargs): the placeholders filled from kwargs, or
\* KeyError (raised from the KeyError of str.format) when a placeholder has
\* no keyword.
format_prompt(template, kwargs) ==
    IF template.placeholders \subseteq DOMAIN kwargs
    THEN [ok |-> TRUE,
          prompt |-> [template |-> template.name,
                      fields |-> [k \in template.placeholders |-> kwargs[k]]]]
    ELSE [ok |-> FALSE,
          exc |-> Exc("KeyError", "Placeholder not provided", template.name,
                      Exc("KeyError", "missing key", template.name, NoExc))]

----------------------------------------------------------------------------
(* core/cot_engine.py: CoTEngine.  Every value handed to a prompt is a text.*)

None == <<"None">>

\* The substitution made for None only, an empty text kept as it is.
OrDefaultNoneOnly(x, default) == IF x = None THEN default ELSE x

\* "x if x else default"
OrDefault(x, default) == IF x = None \/ ~Truthy(x) THEN default ELSE x

YesNo(b) == IF b THEN <<"Yes">> ELSE <<"No">>

\* The methods that hold one completion call each (one try block each).
ReviewMethods == {"_review_and_revise_story_plan", "_review_and_revise_full_story"}

\* The methods each public operation runs, in order.
Methods(op) ==
    CASE op = "generate_story_plan" ->
            <<"_generate_story_plan_initial", "_review_and_revise_story_plan">>
      [] op = "generate_story_from_plan" ->
            <<"_generate_story_from_plan_initial", "_review_and_revise_full_story">>
      [] op = "generate_complete_story" ->
            <<"_generate_story_plan_initial", "_generate_story_from_plan_initial">>
      [] OTHER -> <<op>>

TemplateOf(m) ==
    CASE m = "_generate_story_plan_initial" -> "STORY_PLANNING_PROMPT_TEMPLATE"
      [] m = "_review_and_revise_story_plan" -> "STORY_PLAN_REVIEW_REVISE_PROMPT_TEMPLATE"
      [] m = "_generate_story_from_plan_initial" -> "STORY_GENERATION_FROM_PLAN_PROMPT_TEMPLATE"
      [] m = "_review_and_revise_full_story" -> "FULL_STORY_REVIEW_REVISE_PROMPT_TEMPLATE"
      [] m = "get_input_refinement_suggestions" -> "INPUT_REFINEMENT_SUGGESTION_PROMPT_TEMPLATE"
      [] m = "get_synopsis_elaborations" -> "SYNOPSIS_ELABORATION_PROMPT_TEMPLATE"
      [] m = "get_character_profiles" -> "CHARACTER_DEVELOPMENT_PROMPT_TEMPLATE"
      [] m = "get_setting_details" -> "SETTING_DETAIL_PROMPT_TEMPLATE"
      [] m = "get_plot_twist_suggestions" -> "PLOT_TWIST_SUGGESTION_PROMPT_TEMPLATE"
      [] m = "tune_story_style_tone" -> "STYLE_TONE_TUNING_PROMPT_TEMPLATE"
      [] m = "get_story_branching_suggestions" -> "STORY_BRANCHING_SUGGESTION_PROMPT_TEMPLATE"

\* The keywords each method hands to format_prompt; a is the method's own
\* argument record.
_generate_story_plan_initial_kwargs(a) ==
    [theme |-> a.theme, genre |-> a.genre,
     pokemon_names |-> format_pokemon_names_for_prompt(a.pokemon_names),
     synopsis |-> a.synopsis,
     include_abilities |-> YesNo(a.include_abilities)]

\* The review prompt built with the synopsis in place of the plan to review.
_review_and_revise_story_plan_kwargs_wrong_plan(a) ==
    [theme |-> a.theme, genre |-> a.genre,
     pokemon_names |-> format_pokemon_names_for_prompt(a.pokemon_names),
     synopsis |-> a.synopsis,
     include_abilities |-> YesNo(a.include_abilities),
     story_plan_to_review |-> a.synopsis]

_review_and_revise_story_plan_kwargs(a) ==
    [theme |-> a.theme, genre |-> a.genre,
     pokemon_names |-> format_pokemon_names_for_prompt(a.pokemon_names),
     synopsis |-> a.synopsis,
     include_abilities |-> YesNo(a.include_abilities),
     story_plan_to_review |-> a.to_review]

_generate_story_from_plan_initial_kwargs(a) ==
    [story_plan |-> a.story_plan, theme |-> a.theme, genre |-> a.genre,
     pokemon_names |-> format_pokemon_names_for_prompt(a.pokemon_names),
     synopsis |-> a.synopsis,
     include_abilities |-> YesNo(a.include_abilities)]

_review_and_revise_full_story_kwargs(a) ==
    [theme |-> a.theme, genre |-> a.genre,
     pokemon_names |-> format_pokemon_names_for_prompt(a.pokemon_names),
     synopsis |-> a.synopsis,
     include_abilities |-> YesNo(a.include_abilities),
     story_plan |-> a.story_plan,
     full_story_to_review |-> a.to_review]

get_input_refinement_suggestions_kwargs(a) ==
    LET first_pokemon ==
            IF a.pokemon_names = None \/ ~Truthy(a.pokemon_names) THEN << >>
            ELSE Strip(SplitComma[a.pokemon_names][1])
    IN  [theme |-> OrDefault(a.theme, <<"Not specified">>),
         genre |-> OrDefault(a.genre, <<"Any">>),
         pokemon_names |-> OrDefault(a.pokemon_names, <<"None specified">>),
         pokemon_names_for_suggestion_context |->
             IF Truthy(first_pokemon) THEN first_pokemon ELSE <<"the Pokemon">>,
         synopsis |-> OrDefault(a.synopsis, <<"Not specified">>),
         include_abilities |-> YesNo(a.include_abilities)]

get_synopsis_elaborations_kwargs(a) ==
    [theme |-> a.theme, genre |-> a.genre,
     pokemon_names |-> format_pokemon_names_for_prompt(a.pokemon_names),
     synopsis |-> a.synopsis]

get_character_profiles_kwargs(a) ==
    [theme |-> a.theme, genre |-> a.genre,
     pokemon_names |-> format_pokemon_names_for_prompt(a.pokemon_names),
     synopsis |-> a.synopsis,
     story_plan |-> OrDefault(a.story_plan, <<"N/A">>)]

get_setting_details_kwargs(a) ==
    [theme |-> a.theme, genre |-> a.genre, synopsis |-> a.synopsis,
     story_plan |-> OrDefault(a.story_plan, <<"N/A">>)]

get_plot_twist_suggestions_kwargs(a) ==
    [story_plan |-> a.story_plan,
     section_to_twist |-> OrDefault(a.section_to_twist, <<"(Overall Plan or Climax)">>)]

tune_story_style_tone_kwargs(a) ==
    [story_text_to_tune |-> a.story_text_to_tune, theme |-> a.theme,
     genre |-> a.genre, desired_style_tone |-> a.desired_style_tone]

get_story_branching_suggestions_kwargs(a) ==
    [current_story_segment |-> a.current_story_segment, theme |-> a.theme,
     genre |-> a.genre, story_plan |-> OrDefault(a.story_plan, <<"N/A">>)]

Kwargs(m, a) ==
    CASE m = "_generate_story_plan_initial" -> _generate_story_plan_initial_kwargs(a)
      [] m = "_review_and_revise_story_plan" -> _review_and_revise_story_plan_kwargs(a)
      [] m = "_generate_story_from_plan_initial" -> _generate_story_from_plan_initial_kwargs(a)
      [] m = "_review_and_revise_full_story" -> _review_and_revise_full_story_kwargs(a)
      [] m = "get_input_refinement_suggestions" -> get_input_refinement_suggestions_kwargs(a)
      [] m = "get_synopsis_elaborations" -> get_synopsis_elaborations_kwargs(a)
      [] m = "get_character_profiles" -> get_character_profiles_kwargs(a)
      [] m = "get_setting_details" -> get_setting_details_kwargs(a)
      [] m = "get_plot_twist_suggestions" -> get_plot_twist_suggestions_kwargs(a)
      [] m = "tune_story_style_tone" -> tune_story_style_tone_kwargs(a)
      [] m = "get_story_branching_suggestions" -> get_story_branching_suggestions_kwargs(a)

\* "... during <stage>" in the messages of the first two except clauses.
StageLabel(m) ==
    CASE m = "_generate_story_plan_initial" -> "initial plan generation"
      [] m = "_review_and_revise_story_plan" -> "plan review"
      [] m = "_generate_story_from_plan_initial" -> "initial story generation"
      [] m = "_review_and_revise_full_story" -> "full story review"
      [] m = "get_input_refinement_suggestions" -> "suggestion generation"
      [] m = "get_synopsis_elaborations" -> "synopsis elaboration"
      [] m = "get_character_profiles" -> "character profiling"
      [] m = "get_setting_details" -> "setting detailing"
      [] m = "get_plot_twist_suggestions" -> "plot twist suggestion"
      [] m = "tune_story_style_tone" -> "style/tone tuning"
      [] m = "get_story_branching_suggestions" -> "story branching"

\* "Unexpected error during <stage>" in the last except clause.
UnexpectedStageLabel(m) ==
    CASE m = "_generate_story_plan_initial" -> "initial story plan generation"
      [] m = "_review_and_revise_story_plan" -> "story plan review"
      [] m = "_generate_story_from_plan_initial" -> "initial full story generation"
      [] OTHER -> StageLabel(m)

\* The except clauses raising without "from e".
WrapWithoutCause(m, e) ==
    IF e.type = "OpenAIConfigError"
    THEN Exc("StoryGenerationError", "LLM configuration error", StageLabel(m), NoExc)
    ELSE IF e.type = "KeyError"
    THEN Exc("StoryGenerationError", "Prompt formatting error", StageLabel(m), NoExc)
    ELSE Exc("StoryGenerationError", "Unexpected error", UnexpectedStageLabel(m), NoExc)

\* A method that lets its own StoryGenerationError through as it is.
WrapPassingOwn(m, e) ==
    IF e.type = "StoryGenerationError" THEN e
    ELSE IF e.type = "OpenAIConfigError"
    THEN Exc("StoryGenerationError", "LLM configuration error", StageLabel(m), e)
    ELSE IF e.type = "KeyError"
    THEN Exc("StoryGenerationError", "Prompt formatting error", StageLabel(m), e)
    ELSE Exc("StoryGenerationError", "Unexpected error", UnexpectedStageLabel(m), e)

\* The except clauses of a method, in their order.
Wrap(m, e) ==
    IF e.type = "OpenAIConfigError"
    THEN Exc("StoryGenerationError", "LLM configuration error", StageLabel(m), e)
    ELSE IF e.type = "KeyError"
    THEN Exc("StoryGenerationError", "Prompt formatting error", StageLabel(m), e)
    ELSE Exc("StoryGenerationError", "Unexpected error", UnexpectedStageLabel(m), e)

\* The StoryGenerationError a method raises itself on an empty response.
EmptyResponseError(m) == Exc("StoryGenerationError", "Empty response", m, NoExc)

DefaultSuggestion == <<"No specific suggestions at this time">>

\* The emptiness test without the strip.
IsEmptyTextNoStrip(x) == ~Truthy(x)

\* "not x or x.strip() == ''"
IsEmptyText(x) == ~Truthy(x) \/ Strip(x) = << >>

NoResult == << >>

\* An invocation of a public operation: its arguments, where it stands
\* (Pending, Awaiting a completion call, Returned, Raised), the method it is
\* in, the texts its finished generation calls returned, the parsed review,
\* the prompts it sent so far, and its outcome.
NewInvocation(op, args) ==
    [op |-> op, args |-> args, pc |-> "Pending", step |-> 0,
     produced |-> << >>, review |-> NoOutput, calls |-> << >>,
     result |-> NoResult, error |-> NoExc]

CurrentMethod(s) == Methods(s.op)[s.step]

\* generate_complete_story handing the synopsis, not the generated plan, to
\* the story method.
MethodArgsSynopsisAsPlan(s, k) ==
    CASE s.op = "generate_story_plan" /\ k = 2 ->
            [s.args EXCEPT !.to_review = s.produced[1]]
      [] s.op = "generate_story_from_plan" /\ k = 2 ->
            [s.args EXCEPT !.to_review = s.produced[1]]
      [] s.op = "generate_complete_story" /\ k = 2 ->
            [s.args EXCEPT !.story_plan = s.args.synopsis]
      [] OTHER -> s.args

\* generate_story_from_plan handing the plan, not the generated story, to
\* the review method as the text to review.
MethodArgsPlanAsStory(s, k) ==
    CASE s.op = "generate_story_plan" /\ k = 2 ->
            [s.args EXCEPT !.to_review = s.produced[1]]
      [] s.op = "generate_story_from_plan" /\ k = 2 ->
            [s.args EXCEPT !.to_review = s.args.story_plan]
      [] s.op = "generate_complete_story" /\ k = 2 ->
            [s.args EXCEPT !.story_plan = s.produced[1]]
      [] OTHER -> s.args

\* The engine keeping the latest plan on itself: the story method is handed
\* the plan some other invocation produced, when there is one.
MethodArgsSharedPlan(s, k) ==
    CASE s.op = "generate_story_plan" /\ k = 2 ->
            [s.args EXCEPT !.to_review = s.produced[1]]
      [] s.op = "generate_story_from_plan" /\ k = 2 ->
            [s.args EXCEPT !.to_review = s.produced[1]]
      [] s.op = "generate_complete_story" /\ k = 2 ->
            LET others == {j \in DOMAIN inv :
                              inv[j].args # s.args /\ inv[j].produced # << >>}
            IN  IF others = {}
                THEN [s.args EXCEPT !.story_plan = s.produced[1]]
                ELSE [s.args EXCEPT !.story_plan =
                          inv[CHOOSE j \in others : TRUE].produced[1]]
      [] OTHER -> s.args

\* The arguments the public operation hands to its k-th method.
MethodArgs(s, k) ==
    CASE s.op = "generate_story_plan" /\ k = 2 ->
            [s.args EXCEPT !.to_review = s.produced[1]]
      [] s.op = "generate_story_from_plan" /\ k = 2 ->
            [s.args EXCEPT !.to_review = s.produced[1]]
      [] s.op = "generate_complete_story" /\ k = 2 ->
            [s.args EXCEPT !.story_plan = s.produced[1]]
      [] OTHER -> s.args

Raise(s, e) == [s EXCEPT !.pc = "Raised", !.error = e]

Return(s, value) == [s EXCEPT !.pc = "Returned", !.result = value]

\* The returned texts trimmed before they are handed back.
ResultOfTrimmed(s) ==
    CASE s.op \in {"generate_story_plan", "generate_story_from_plan"} ->
            <<s.review.revised_content>>
      [] s.op = "generate_complete_story" ->
            <<Strip(s.produced[1]), Strip(s.produced[2])>>
      [] OTHER -> <<Strip(s.produced[1])>>

\* What the public operation returns once its last method has returned.
ResultOf(s) ==
    CASE s.op \in {"generate_story_plan", "generate_story_from_plan"} ->
            <<s.review.revised_content>>
      [] s.op = "generate_complete_story" -> <<s.produced[1], s.produced[2]>>
      [] OTHER -> <<s.produced[1]>>

\* A method from its entry to its await: the prompt is formatted and the
\* completion call issued, or the formatting error is wrapped and raised.
Enter(s, k) ==
    LET m == Methods(s.op)[k]
        fp == format_prompt(Template(TemplateOf(m)), Kwargs(m, MethodArgs(s, k)))
    IN  IF fp.ok
        THEN [s EXCEPT !.pc = "Awaiting", !.step = k,
                       !.calls = Append(@, fp.prompt)]
        ELSE Raise([s EXCEPT !.step = k], Wrap(m, fp.exc))

\* An empty response answered by issuing the same call again.
OnEmptyRetry(s) == Enter(s, s.step)

\* A method whose completion call returned an empty or whitespace-only
\* text: the suggestions fall back to a default, all others raise (and the
\* method's own "except Exception" wraps what it raised).
OnEmpty(s) ==
    LET m == CurrentMethod(s)
    IN  IF m = "get_input_refinement_suggestions"
        THEN Return(s, <<DefaultSuggestion>>)
        ELSE Raise(s, Wrap(m, EmptyResponseError(m)))

\* The public operation after its current method returned: the next method
\* is entered, or the operation returns.
Proceed(s) ==
    IF s.step < Len(Methods(s.op))
    THEN Enter(s, s.step + 1)
    ELSE Return(s, ResultOf(s))

\* The review text handed to the parser before it is tested for emptiness.
ResumeParseFirst(s, text) ==
    LET m == CurrentMethod(s)
    IN  IF m \in ReviewMethods
        THEN Proceed([s EXCEPT !.review =
                 _parse_reviewer_output(text, MethodArgs(s, s.step).to_review)])
        ELSE IF IsEmptyText(text) THEN OnEmpty(s)
        ELSE Proceed([s EXCEPT !.produced = Append(@, text)])

\* A generation method that keeps whatever its completion call returned.
ResumeKeepingEmpty(s, text) ==
    LET m == CurrentMethod(s)
    IN  IF m \in ReviewMethods
        THEN IF IsEmptyText(text) THEN OnEmpty(s)
             ELSE Proceed([s EXCEPT !.review =
                      _parse_reviewer_output(text, MethodArgs(s, s.step).to_review)])
        ELSE Proceed([s EXCEPT !.produced = Append(@, text)])

\* The review methods each seeking only the marker of the content they
\* review: the outline's in the plan review, the full story's in the story
\* review.
ResumeMarkerByMethod(s, text) ==
    LET m == CurrentMethod(s)
        cm == IF m = "_review_and_revise_story_plan" THEN plan_content_marker
                                                     ELSE story_content_marker
        original == MethodArgs(s, s.step).to_review
        feedback_start == Find(text, feedback_marker)
        content_start == Find(text, cm)
        feedback == ExtractFeedback(text, feedback_start, content_start)
        parsed ==
            IF content_start # -1
            THEN ReviseFromContent(Strip(SliceFrom(text, content_start + Len(cm))),
                                   feedback, original)
            ELSE IF feedback_start = -1
            THEN ReviseWithoutMarkers(text, original)
            ELSE ReviewerOutput(feedback, original)
    IN  IF IsEmptyText(text) THEN OnEmpty(s)
        ELSE IF m \in ReviewMethods
        THEN Proceed([s EXCEPT !.review = parsed])
        ELSE Proceed([s EXCEPT !.produced = Append(@, text)])

\* The code that runs when the awaited completion call returns text.
Resume(s, text) ==
    LET m == CurrentMethod(s)
    IN  IF IsEmptyText(text) THEN OnEmpty(s)
        ELSE IF m \in ReviewMethods
        THEN Proceed([s EXCEPT !.review =
                 _parse_reviewer_output(text, MethodArgs(s, s.step).to_review)])
        ELSE Proceed([s EXCEPT !.produced = Append(@, text)])

\* A failed review answered by returning the content under review.
FailSoft(s, e) ==
    IF CurrentMethod(s) \in ReviewMethods
    THEN Return(s, <<s.produced[1]>>)
    ELSE Raise(s, Wrap(CurrentMethod(s), e))

\* A failure that is logged and swallowed: the operation returns nothing.
FailSwallowed(s, e) == [s EXCEPT !.pc = "Returned"]

\* The code that runs when the awaited completion call raises e.
Fail(s, e) == Raise(s, Wrap(CurrentMethod(s), e))

----------------------------------------------------------------------------
(* The environment of the engine: callers and the completion client.        *)

InvIds == {"inv1"}

PublicOps ==
    {"generate_story_plan", "generate_story_from_plan", "generate_complete_story",
     "get_input_refinement_suggestions", "get_synopsis_elaborations",
     "get_character_profiles", "get_setting_details",
     "get_plot_twist_suggestions", "tune_story_style_tone",
     "get_story_branching_suggestions"}

Synopses == {<<"synopsis1">>, <<"synopsis2">>}

\* A caller's arguments; a field an operation does not take is None.
BaseArgs ==
    [theme |-> <<"theme">>, genre |-> <<"genre">>,
     pokemon_names |-> <<"zh_pikachu", ",", "WS", "zh_unlisted">>,
     synopsis |-> <<"synopsis1">>, include_abilities |-> TRUE,
     story_plan |-> None, to_review |-> None, section_to_twist |-> None,
     story_text_to_tune |-> None, desired_style_tone |-> None,
     current_story_segment |-> None]

ArgsOf(op) ==
    LET requests == {[BaseArgs EXCEPT !.synopsis = sy, !.include_abilities = ab] :
                        sy \in Synopses, ab \in BOOLEAN}
    IN  CASE op \in {"generate_story_plan", "generate_complete_story",
                     "get_synopsis_elaborations"} -> requests
          [] op = "generate_story_from_plan" ->
                {[r EXCEPT !.story_plan = <<"edited plan">>] : r \in requests}
          [] op = "get_input_refinement_suggestions" ->
                requests \cup
                {[BaseArgs EXCEPT !.theme = None, !.genre = << >>,
                                  !.pokemon_names = None, !.synopsis = << >>],
                 [BaseArgs EXCEPT !.pokemon_names = <<"WS", ",", "zh_eevee">>]}
          [] op \in {"get_character_profiles", "get_setting_details"} ->
                {[r EXCEPT !.story_plan = sp] :
                    r \in requests, sp \in {None, <<"edited plan">>}}
          [] op = "get_plot_twist_suggestions" ->
                {[BaseArgs EXCEPT !.story_plan = <<"edited plan">>,
                                  !.section_to_twist = st] :
                    st \in {None, <<"section">>}}
          [] op = "tune_story_style_tone" ->
                {[BaseArgs EXCEPT !.story_text_to_tune = <<"story">>,
                                  !.desired_style_tone = <<"tone">>]}
          [] op = "get_story_branching_suggestions" ->
                {[BaseArgs EXCEPT !.current_story_segment = <<"segment">>,
                                  !.story_plan = sp] :
                    sp \in {None, <<"edited plan">>}}

\* What a completion call may return: a feedback part and a content part in
\* either order, each absent, with a half- or full-width marker, and plain,
\* empty and whitespace-only texts.
FeedbackParts ==
    {<< >>} \cup {<<m>> \o f : m \in {"FBh", "FBf"}, f \in {<< >>, <<"a", "WS">>}}

ContentParts ==
    {<< >>} \cup
    {<<m>> \o c : m \in {"PLh", "PLf", "STh", "STf"},
                  c \in {<< >>, <<"b">>, <<"S1", "a">>, <<"S2", "a">>}}

Replies ==
    {f \o c : f \in FeedbackParts, c \in ContentParts}
    \cup {c \o <<"WS">> \o f : f \in FeedbackParts, c \in ContentParts}
    \cup {<<"a">>, <<"WS">>, <<"WS", "a", "a", "WS">>}

\* What a completion call may raise: the client's own error kind, and, from
\* a substituted client, a KeyError or any other Exception.
ClientErrors ==
    {Exc("OpenAIConfigError", "OpenAI API call failed", "generate_text", NoExc),
     Exc("KeyError", "key", "generate_text", NoExc),
     Exc("RuntimeError", "unexpected", "generate_text", NoExc)}

Stores(op) ==
    {SourceTemplates} \cup {Drifted(TemplateOf(Methods(op)[k])) : k \in 1..Len(Methods(op))}

\* How a completion call ended.
Returned(text) == [kind |-> "returned", text |-> text, exc |-> NoExc]
Raised(e) == [kind |-> "raised", text |-> << >>, exc |-> e]

Init ==
    /\ ParserOff
    /\ OtherOff
    /\ \E op \in PublicOps :
          /\ store \in Stores(op)
          /\ \E a \in ArgsOf(op) : inv = [i \in InvIds |-> NewInvocation(op, a)]
    /\ outcomes = [i \in InvIds |-> << >>]

\* The event loop starts the coroutine of invocation i.
Invoke(i) ==
    /\ inv[i].pc = "Pending"
    /\ inv' = [inv EXCEPT ![i] = Enter(@, 1)]
    /\ UNCHANGED <<store, outcomes, parserVars, otherVars>>

\* The completion call invocation i awaits returns text.
CompletionReturns(i, text) ==
    /\ inv[i].pc = "Awaiting"
    /\ inv' = [inv EXCEPT ![i] = Resume(@, text)]
    /\ outcomes' = [outcomes EXCEPT ![i] = Append(@, Returned(text))]
    /\ UNCHANGED <<store, parserVars, otherVars>>

\* The completion call invocation i awaits raises e.
CompletionRaises(i, e) ==
    /\ inv[i].pc = "Awaiting"
    /\ inv' = [inv EXCEPT ![i] = Fail(@, e)]
    /\ outcomes' = [outcomes EXCEPT ![i] = Append(@, Raised(e))]
    /\ UNCHANGED <<store, parserVars, otherVars>>

Run(i) ==
    \/ Invoke(i)
    \/ \E text \in Replies : CompletionReturns(i, text)
    \/ \E e \in ClientErrors : CompletionRaises(i, e)

Next == \E i \in InvIds : Run(i)

Spec == Init /\ [][Next]_vars

\* The replies of the runs checked for termination: one of each kind the
\* engine and the parser tell apart.
LiveReplies ==
    {<< >>, <<"WS">>, <<"a">>,
     <<"FBh", "a", "WS", "PLh", "b">>, <<"FBf", "a", "WS", "PLf", "b">>,
     <<"FBh", "PLh", "S1", "a">>, <<"STh", "S2", "a">>, <<"FBh", "a", "WS">>}

LiveRun(i) ==
    \/ Invoke(i)
    \/ \E text \in LiveReplies : CompletionReturns(i, text)
    \/ \E e \in ClientErrors : CompletionRaises(i, e)

LiveNext == \E i \in InvIds : LiveRun(i)

\* Every started coroutine is run, and every completion call returns or fails.
FairSpec == Init /\ [][LiveNext]_vars /\ \A i \in InvIds : WF_vars(LiveRun(i))

----------------------------------------------------------------------------
(* config/settings.py and core/llm_services.py: the settings object, the    *)
(* LLMService constructor and generate_text.                                *)

\* What the environment may hold for OPENAI_API_KEY: nothing (os.getenv
\* gives None), an empty value, a key.
EnvKeys == {None, << >>, <<"sk-env">>}

NotLoaded == [loaded |-> FALSE]

\* settings.py lines 6-20: the class attribute takes whatever os.getenv
\* returns; nothing is checked.
ImportSettings(environment_key) ==
    [loaded |-> TRUE, OPENAI_API_KEY |-> environment_key, import_error |-> NoExc]

NotConstructed == [attempted |-> FALSE]

NoService == [constructed |-> FALSE]

OpenAIConfigError(msg) == [type |-> "OpenAIConfigError", msg |-> msg]

MissingKeyMessage ==
    <<"OpenAI API key not provided and not found in environment settings.">>

\* What OpenAI(api_key=...) may do when the client is built: return it
\* (NoExc) or raise.
ClientInitOutcomes ==
    {NoExc,
     [type |-> "TypeError", msg |-> <<"unexpected keyword argument">>],
     [type |-> "RuntimeError", msg |-> <<"unexpected">>]}

\* A constructor that leaves the credential to the first call.
LLMService_init_lazy(api_key, model_name, client) ==
    LET resolved_api_key ==
            IF api_key # None THEN api_key ELSE settings.OPENAI_API_KEY
    IN  [exc |-> NoExc,
         self |-> [constructed |-> TRUE,
                   client |-> [api_key |-> resolved_api_key],
                   model_name |-> model_name]]

\* LLMService.__init__, lines 29-37: the exception it raises, or the object.
\* client is what OpenAI(api_key=resolved_api_key) raises, NoExc when it
\* returns the client.
LLMService_init(api_key, model_name, client) ==
    LET resolved_api_key ==
            IF api_key # None THEN api_key ELSE settings.OPENAI_API_KEY
    IN  IF resolved_api_key = None \/ ~Truthy(resolved_api_key)
        THEN [exc |-> OpenAIConfigError(MissingKeyMessage), self |-> NoService]
        ELSE IF client # NoExc
        THEN [exc |-> client, self |-> NoService]
        ELSE [exc |-> NoExc,
              self |-> [constructed |-> TRUE,
                        client |-> [api_key |-> resolved_api_key],
                        model_name |-> model_name]]

\* What the provider call may do: raise, or return a response.  A response
\* is a completion with a list of choices, each with a message content
\* (None, empty, whitespace or text), or an object without "choices" (what
\* a streaming request returns).
ProviderErrors ==
    {[type |-> "APIConnectionError", msg |-> <<"Connection error.">>],
     [type |-> "AuthenticationError", msg |-> <<"Incorrect API key provided">>],
     [type |-> "RateLimitError", msg |-> <<"Rate limit reached">>]}

Contents == {None, << >>, <<"WS">>, <<"WS", "WS">>, <<"a">>, <<"WS", "a", "WS">>}

StreamObject == [chunks |-> << >>]

Responses ==
    {[choices |-> <<[content |-> c]>>] : c \in Contents}
    \cup {[choices |-> << >>], StreamObject}

Raises(e) == [kind |-> "raises", exc |-> e, response |-> StreamObject]
Responds(r) == [kind |-> "responds", exc |-> NoExc, response |-> r]

ProviderOutcomes ==
    {Raises(e) : e \in ProviderErrors} \cup {Responds(r) : r \in Responses}

\* "content or ''"
ContentOrEmpty(content) == IF content = None \/ ~Truthy(content) THEN << >> ELSE content

\* f"OpenAI API call failed: {e}"
CallFailed(e) == OpenAIConfigError(<<"OpenAI API call failed: ">> \o e.msg)

StreamPlaceholder == <<"[Streaming response not fully processed]">>

\* What evaluating response.choices[0].message.content raises on a response
\* that lacks it.
NoChoicesAttribute ==
    [type |-> "AttributeError", msg |-> <<"object has no attribute 'choices'">>]
NoFirstChoice ==
    [type |-> "IndexError", msg |-> <<"list index out of range">>]

\* generate_text letting through what is not an API error.
generate_text_unwrapped(self, stream, outcome) ==
    IF outcome.kind = "raises"
    THEN Raised(CallFailed(outcome.exc))
    ELSE LET response == outcome.response
             has_choices == "choices" \in DOMAIN response
         IN  IF stream
             THEN IF has_choices /\ response.choices # << >>
                  THEN Returned(ContentOrEmpty(response.choices[1].content))
                  ELSE Returned(StreamPlaceholder)
             ELSE IF ~has_choices THEN Raised(NoChoicesAttribute)
             ELSE IF response.choices = << >> THEN Raised(NoFirstChoice)
             ELSE Returned(ContentOrEmpty(response.choices[1].content))

\* generate_text rejecting an empty completion.
generate_text_rejecting_empty(self, stream, outcome) ==
    IF outcome.kind = "raises"
    THEN Raised(CallFailed(outcome.exc))
    ELSE LET response == outcome.response
             has_choices == "choices" \in DOMAIN response
         IN  IF stream
             THEN IF has_choices /\ response.choices # << >>
                  THEN Returned(ContentOrEmpty(response.choices[1].content))
                  ELSE Returned(StreamPlaceholder)
             ELSE IF ~has_choices THEN Raised(CallFailed(NoChoicesAttribute))
             ELSE IF response.choices = << >> THEN Raised(CallFailed(NoFirstChoice))
             ELSE IF Strip(ContentOrEmpty(response.choices[1].content)) = << >>
             THEN Raised(OpenAIConfigError(<<"empty completion">>))
             ELSE Returned(ContentOrEmpty(response.choices[1].content))

\* LLMService.generate_text, lines 74-116, from the moment the provider
\* call ends: what the caller gets.
generate_text(self, stream, outcome) ==
    IF outcome.kind = "raises"
    THEN Raised(CallFailed(outcome.exc))
    ELSE LET response == outcome.response
             has_choices == "choices" \in DOMAIN response
         IN  IF stream
             THEN IF has_choices /\ response.choices # << >>
                  THEN Returned(ContentOrEmpty(response.choices[1].content))
                  ELSE Returned(StreamPlaceholder)
             ELSE IF ~has_choices THEN Raised(CallFailed(NoChoicesAttribute))
             ELSE IF response.choices = << >> THEN Raised(CallFailed(NoFirstChoice))
             ELSE Returned(ContentOrEmpty(response.choices[1].content))

\* The request generate_text hands to the provider, lines 75-83.
ProviderRequest(self, prompt, stream) ==
    [api_key |-> self.client.api_key, model |-> self.model_name,
     messages |-> prompt, stream |-> stream]

----------------------------------------------------------------------------
(* The service on its own: the settings are imported, a service is          *)
(* constructed, and a caller makes generate_text calls one after another.   *)

\* Most generate_text calls in one run.
MaxServiceCalls == 2

ApiKeyArgs == {None, << >>, <<"sk-arg">>}

ModelNames == {"gpt-4-turbo", "gpt-4.1"}

ServicePrompts == {<<"prompt">>}

ServiceInit ==
    /\ env_key \in EnvKeys
    /\ settings = NotLoaded
    /\ ctor = NotConstructed
    /\ llm_service = NoService
    /\ g_call = [pc |-> "none"]
    /\ g_done = 0
    /\ ParserOff /\ EngineOff /\ NamesOff /\ SharedOff /\ UiOff

\* "from config.settings import settings"
LoadSettings ==
    /\ ~settings.loaded
    /\ settings' = ImportSettings(env_key)
    /\ UNCHANGED <<env_key, ctor, llm_service, g_call, g_done>>
    /\ UNCHANGED <<parserVars, engineVars, namesVars, sharedVars, uiVars>>

\* LLMService(api_key, model_name)
Construct(api_key, model_name, client) ==
    /\ settings.loaded /\ settings.import_error = NoExc
    /\ ~ctor.attempted
    /\ LET made == LLMService_init(api_key, model_name, client)
       IN  /\ ctor' = [attempted |-> TRUE, api_key |-> api_key,
                       model_name |-> model_name, exc |-> made.exc]
           /\ llm_service' = made.self
    /\ UNCHANGED <<env_key, settings, g_call, g_done>>
    /\ UNCHANGED <<parserVars, engineVars, namesVars, sharedVars, uiVars>>

\* A caller awaits llm_service.generate_text(prompt, stream=stream); the
\* request goes to the provider.
CallGenerateText(prompt, stream) ==
    /\ llm_service.constructed
    /\ g_call.pc # "awaiting"
    /\ g_done < MaxServiceCalls
    /\ g_call' = [pc |-> "awaiting", stream |-> stream,
                  request |-> ProviderRequest(llm_service, prompt, stream)]
    /\ UNCHANGED <<env_key, settings, ctor, llm_service, g_done>>
    /\ UNCHANGED <<parserVars, engineVars, namesVars, sharedVars, uiVars>>

\* The provider call ends and generate_text returns or raises.
ProviderCallEnds(outcome) ==
    /\ g_call.pc = "awaiting"
    /\ g_call' = [pc |-> "done", stream |-> g_call.stream,
                  request |-> g_call.request, provider |-> outcome,
                  result |-> generate_text(llm_service, g_call.stream, outcome)]
    /\ g_done' = g_done + 1
    /\ UNCHANGED <<env_key, settings, ctor, llm_service>>
    /\ UNCHANGED <<parserVars, engineVars, namesVars, sharedVars, uiVars>>

ServiceNext ==
    \/ LoadSettings
    \/ \E k \in ApiKeyArgs, m \in ModelNames, c \in ClientInitOutcomes :
          Construct(k, m, c)
    \/ \E p \in ServicePrompts, st \in BOOLEAN : CallGenerateText(p, st)
    \/ \E o \in ProviderOutcomes : ProviderCallEnds(o)

ServiceSpec == ServiceInit /\ [][ServiceNext]_vars

----------------------------------------------------------------------------
(* One CoTEngine and one LLMService shared by concurrent invocations.  The  *)
(* coroutines interleave at their awaits; each provider call runs in its    *)
(* own thread (asyncio.to_thread), so the calls of different invocations    *)
(* are in flight together and end in any order.                             *)

NoEngine == [constructed |-> FALSE]

\* The one LLMService object, as a reference held by others.
ServiceRef == "llm_service_instance"

\* CoTEngine.__init__, line 73
CoTEngine_init(service_ref) == [constructed |-> TRUE, llm_service |-> service_ref]

\* The object a service reference designates.
Deref(service_ref) == IF service_ref = ServiceRef THEN llm_service ELSE NoService

SharedIds == {"inv1", "inv2"}

SharedOps ==
    {"generate_story_plan", "generate_story_from_plan", "generate_complete_story",
     "get_synopsis_elaborations"}

\* Each invocation has a synopsis of its own; generate_story_from_plan takes
\* a story plan as well.
SharedArgs(i, op) ==
    [BaseArgs EXCEPT !.synopsis = IF i = "inv1" THEN <<"synopsis1">>
                                               ELSE <<"synopsis2">>,
                     !.story_plan = IF op = "generate_story_from_plan"
                                    THEN <<"edited plan">>
                                    ELSE None]

SharedOutcomes ==
    {Raises([type |-> "RateLimitError", msg |-> <<"Rate limit reached">>]),
     Responds([choices |-> <<[content |-> None]>>]),
     Responds([choices |-> <<[content |-> <<"a">>]>>]),
     Responds([choices |-> <<[content |-> <<"FBh", "a", "PLh", "b">>]>>]),
     Responds([choices |-> <<[content |-> <<"FBh", "a", "STh", "b">>]>>]),
     Responds([choices |-> <<[content |-> <<"FBh", "PLh", "S1">>]>>])}

SharedInit ==
    /\ env_key = <<"sk-env">>
    /\ settings = ImportSettings(env_key)
    /\ \E m \in ModelNames :
          /\ ctor = [attempted |-> TRUE, api_key |-> None, model_name |-> m,
                     exc |-> LLMService_init(None, m, NoExc).exc]
          /\ llm_service = LLMService_init(None, m, NoExc).self
    /\ engine = CoTEngine_init(ServiceRef)
    /\ store = SourceTemplates
    /\ \E op1 \in SharedOps, op2 \in SharedOps :
          inv = [i \in SharedIds |->
                    NewInvocation(IF i = "inv1" THEN op1 ELSE op2,
                                  SharedArgs(i, IF i = "inv1" THEN op1 ELSE op2))]
    /\ outcomes = [i \in SharedIds |-> << >>]
    /\ sent = << >>
    /\ g_call = [pc |-> "none"]
    /\ g_done = 0
    /\ ParserOff /\ NamesOff /\ UiOff

\* The requests sent after invocation i moved from "before" to "after": one more
\* when it issued a completion call, through the service the engine holds.
RequestsAfter(i, before, after) ==
    IF after.pc = "Awaiting" /\ Len(after.calls) > Len(before.calls)
    THEN Append(sent,
                [by |-> i,
                 request |-> ProviderRequest(Deref(engine.llm_service),
                                             after.calls[Len(after.calls)],
                                             FALSE)])
    ELSE sent

\* The event loop starts the coroutine of invocation i; it runs to its
\* first await.
SharedInvoke(i) ==
    /\ inv[i].pc = "Pending"
    /\ inv' = [inv EXCEPT ![i] = Enter(@, 1)]
    /\ sent' = RequestsAfter(i, inv[i], inv'[i])
    /\ UNCHANGED <<store, outcomes, engine, serviceVars, uiVars>>
    /\ UNCHANGED <<parserVars, namesVars>>

\* The provider call of invocation i ends; generate_text returns or raises
\* and the coroutine runs to its next await or to its end.
SharedCallEnds(i, outcome) ==
    /\ inv[i].pc = "Awaiting"
    /\ LET got == generate_text(Deref(engine.llm_service), FALSE, outcome)
       IN  /\ inv' = [inv EXCEPT ![i] = IF got.kind = "returned"
                                        THEN Resume(@, got.text)
                                        ELSE Fail(@, got.exc)]
           /\ outcomes' = [outcomes EXCEPT ![i] = Append(@, got)]
    /\ sent' = RequestsAfter(i, inv[i], inv'[i])
    /\ UNCHANGED <<store, engine, serviceVars, uiVars>>
    /\ UNCHANGED <<parserVars, namesVars>>

SharedNext ==
    \E i \in SharedIds :
        \/ SharedInvoke(i)
        \/ \E o \in SharedOutcomes : SharedCallEnds(i, o)

SharedSpec == SharedInit /\ [][SharedNext]_vars

----------------------------------------------------------------------------

(* ui/app.py: the presentation layer.  A text may hold newlines ("NL").     *)

\* content.split('\n')
SplitLines[s \in NamesText] ==
    LET c == Find(s, <<"NL">>)
    IN  IF c = -1 THEN <<s>>
        ELSE <<Slice(s, 0, c)>> \o SplitLines[SliceFrom(s, c + 1)]

\* '\n'.join(clean_lines)
JoinLines[parts \in NamesList] ==
    IF parts = << >> THEN << >>
    ELSE IF Len(parts) = 1 THEN parts[1]
    ELSE parts[1] \o <<"NL">> \o JoinLines[Tail(parts)]

\* The loop of clean_full_story_content: a line that starts with the
\* feedback marker is skipped; the lines from the first non-blank one of the
\* others are collected.
CleanLoop[lines \in NamesList] ==
    IF lines = << >> THEN [found_story_start |-> FALSE, clean_lines |-> << >>]
    ELSE LET before == CleanLoop[SubSeq(lines, 1, Len(lines) - 1)]
             line == lines[Len(lines)]
             line_stripped == Strip(line)
         IN  IF StartsWith(line_stripped, feedback_marker) THEN before
             ELSE LET found == before.found_story_start \/ Truthy(line_stripped)
                  IN  [found_story_start |-> found,
                       clean_lines |-> IF found
                                       THEN Append(before.clean_lines, line)
                                       ELSE before.clean_lines]

\* A cleaning that only trims the text.
clean_full_story_content_keeping_feedback(raw_content) ==
    IF raw_content = None \/ ~Truthy(raw_content) \/ ~Truthy(Strip(raw_content))
    THEN << >>
    ELSE Strip(raw_content)

\* lines 122-166
clean_full_story_content(raw_content) ==
    IF raw_content = None \/ ~Truthy(raw_content) \/ ~Truthy(Strip(raw_content))
    THEN << >>
    ELSE LET stripped == Strip(raw_content)
             after_marker ==
                 IF Contains(stripped, story_content_marker)
                 THEN Strip(SliceFrom(stripped,
                                      Find(stripped, story_content_marker)
                                        + Len(story_content_marker)))
                 ELSE stripped
             without_leading ==
                 IF StartsWith(after_marker, feedback_marker)
                 THEN Strip(JoinLines[CleanLoop[SplitLines[after_marker]].clean_lines])
                 ELSE after_marker
         IN  IF Contains(without_leading, feedback_marker)
             THEN Strip(Slice(without_leading, 0,
                              Find(without_leading, feedback_marker)))
             ELSE without_leading

\* The words story_segment keeps.
SegmentWords == 100

\* raw_full_story_text.split(): the maximal runs of non-whitespace.
Words[s \in NamesText] ==
    IF s = << >> THEN << >>
    ELSE IF IsSpace(s[1]) THEN Words[Tail(s)]
    ELSE LET spaces == {k \in 1..Len(s) : IsSpace(s[k])}
             n == IF spaces = {} THEN Len(s)
                  ELSE (CHOOSE k \in spaces : \A j \in spaces : k <= j) - 1
         IN  <<SubSeq(s, 1, n)>> \o Words[SubSeq(s, n + 1, Len(s))]

\* " ".join(words)
JoinSpace[parts \in NamesList] ==
    IF parts = << >> THEN << >>
    ELSE IF Len(parts) = 1 THEN parts[1]
    ELSE parts[1] \o <<"WS">> \o JoinSpace[Tail(parts)]

\* " ".join(raw_full_story_text.split()[:100])
StorySegment(raw_full_story_text) ==
    LET words == Words[raw_full_story_text]
    IN  JoinSpace[SubSeq(words, 1, IF Len(words) > SegmentWords
                                   THEN SegmentWords ELSE Len(words))]

----------------------------------------------------------------------------

\* A text shown to the user: its fixed part and the exception formatted
\* into it (NoExc when there is none).
Message(text, exc) == [text |-> text, exc |-> exc]

NoInitError == [none |-> TRUE]

NotInitialized == [ready |-> FALSE]

\* initialize_services, lines 26-44: what it leaves in the three globals.
\* client is what OpenAI(api_key=...) raises inside LLMService, NoExc when
\* it returns the client.
initialize_services(client) ==
    IF settings.OPENAI_API_KEY = None \/ ~Truthy(settings.OPENAI_API_KEY)
    THEN [initialization_error |-> Message(<<"OpenAI API key not found">>, NoExc),
          attempted |-> FALSE,
          llm_service_instance |-> NoService,
          cot_engine_instance |-> NoEngine]
    ELSE LET made == LLMService_init(None, "gpt-4.1", client)
         IN  IF made.exc = NoExc
             THEN [initialization_error |-> NoInitError,
                   attempted |-> TRUE,
                   llm_service_instance |-> made.self,
                   cot_engine_instance |-> CoTEngine_init(ServiceRef)]
             ELSE IF made.exc.type = "OpenAIConfigError"
             THEN [initialization_error |->
                       Message(<<"OpenAI configuration error at initialization: ">>, made.exc),
                   attempted |-> TRUE,
                   llm_service_instance |-> NoService,
                   cot_engine_instance |-> NoEngine]
             ELSE [initialization_error |->
                       Message(<<"Unexpected error at initialization: ">>, made.exc),
                   attempted |-> TRUE,
                   llm_service_instance |-> NoService,
                   cot_engine_instance |-> NoEngine]

\* Lines 1118-1120: run as a script, the module launches the interface only
\* when initialization_error is not set; a program that imports the module
\* launches "demo" itself.
Launched(as_script, initialization_error) ==
    ~as_script \/ initialization_error = NoInitError

Handlers ==
    {"handle_generate_plan_click", "handle_generate_story_from_plan_click",
     "get_suggestions_only"}

\* A plan handler that asks for the plot twists before the elaborations.
StagesTwistsFirst(handler) ==
    CASE handler = "handle_generate_plan_click" ->
            <<"generate_story_plan", "get_plot_twist_suggestions",
              "get_synopsis_elaborations", "get_character_profiles",
              "get_setting_details">>
      [] handler = "handle_generate_story_from_plan_click" ->
            <<"generate_story_from_plan", "tune_story_style_tone",
              "get_story_branching_suggestions">>
      [] handler = "get_suggestions_only" ->
            <<"get_input_refinement_suggestions">>

\* The engine operations a handler awaits, in the order of its code.
Stages(handler) ==
    CASE handler = "handle_generate_plan_click" ->
            <<"generate_story_plan", "get_synopsis_elaborations",
              "get_character_profiles", "get_setting_details",
              "get_plot_twist_suggestions">>
      [] handler = "handle_generate_story_from_plan_click" ->
            <<"generate_story_from_plan", "tune_story_style_tone",
              "get_story_branching_suggestions">>
      [] handler = "get_suggestions_only" ->
            <<"get_input_refinement_suggestions">>

StageOp(e, k) == Stages(e.handler)[k]

\* The arguments the handler hands to its k-th engine operation.
StageArgs(e, k) ==
    LET x == e.inputs
        given == [BaseArgs EXCEPT !.theme = x.theme, !.genre = x.genre,
                                  !.pokemon_names = x.pokemon_names,
                                  !.synopsis = x.synopsis,
                                  !.include_abilities = x.include_abilities]
    IN  CASE e.handler = "handle_generate_plan_click" /\ k \in {3, 4, 5} ->
                [given EXCEPT !.story_plan = e.raw]
          [] e.handler = "handle_generate_story_from_plan_click" /\ k = 1 ->
                [given EXCEPT !.story_plan = x.edited_story_plan]
          [] e.handler = "handle_generate_story_from_plan_click" /\ k = 2 ->
                [given EXCEPT !.story_text_to_tune = e.raw,
                              !.desired_style_tone =
                                  x.genre \o <<" style Pokemon adventure story">>]
          [] e.handler = "handle_generate_story_from_plan_click" /\ k = 3 ->
                [given EXCEPT !.current_story_segment = StorySegment(e.raw),
                              !.story_plan = x.edited_story_plan]
          [] OTHER -> given

NoCall == [pc |-> "none"]

NoHandlerResult == [none |-> TRUE]

\* What the handler did, in order: a completion call issued or ended, an
\* engine operation ended (the first one with the text it returned) or left
\* out.
Issued(op) == [ev |-> "issued", op |-> op, raised |-> FALSE]
Ended(op, raised) == [ev |-> "ended", op |-> op, raised |-> raised]
OperationEnded(op, raised, result) ==
    [ev |-> "operation ended", op |-> op, raised |-> raised, result |-> result]
NotAwaited(op) == [ev |-> "not awaited", op |-> op, raised |-> FALSE]

\* The components the click wiring hands to a handler, lines 1072-1097:
\* the plan shown in the interface goes to the story handler only.
Wired(handler, form) ==
    IF handler = "handle_generate_story_from_plan_click" THEN form
    ELSE [form EXCEPT !.edited_story_plan = None]

\* A handler called with the fields of the form.
NewEvent(handler, form) ==
    [handler |-> handler, inputs |-> Wired(handler, form), pc |-> "running",
     stage |-> 0,
     raw |-> None, call |-> NoCall, trace |-> << >>, status |-> << >>,
     result |-> NoHandlerResult]

\* What is kept of an event once the framework has shown what its handler
\* returned: the type of the exception its message shows ("None" when it
\* shows none).
Served(e) == [pc |-> "served", exc_type |-> e.result.status.exc.type]

\* The events once the framework has shown what the returned handlers
\* returned.
Shown ==
    [i \in DOMAIN h |-> IF h[i].pc = "returned" THEN Served(h[i]) ELSE h[i]]

\* "return artifact, status"; get_suggestions_only returns the one text.
HandlerReturns(e, artifact, status) ==
    [e EXCEPT !.pc = "returned",
              !.result = IF e.handler = "get_suggestions_only"
                         THEN [artifact |-> None, status |-> status]
                         ELSE [artifact |-> artifact, status |-> status]]

\* The exception leaves the handler.
HandlerPropagates(e, x) ==
    [e EXCEPT !.pc = "propagated", !.result = [artifact |-> None, status |-> Message(<< >>, x)]]

ErrorPrefix(handler, x) ==
    CASE handler = "get_suggestions_only" -> <<"Error while getting suggestions: ">>
      [] x.type = "StoryGenerationError"
         /\ handler = "handle_generate_plan_click" -> <<"Story plan generation error: ">>
      [] x.type = "StoryGenerationError"
         /\ handler = "handle_generate_story_from_plan_click" -> <<"Full story generation error: ">>
      [] x.type = "OpenAIConfigError" -> <<"OpenAI configuration error: ">>
      [] OTHER -> <<"Unexpected error: ">>

\* A handler whose except clauses name StoryGenerationError only.
OnErrorOnlyStoryGenerationError(e, x) ==
    IF x.type = "StoryGenerationError"
    THEN HandlerReturns(e, << >>, Message(ErrorPrefix(e.handler, x), x))
    ELSE HandlerPropagates(e, x)

\* The except clauses around the handler's first engine operation: each
\* returns an empty artifact and the message built from the exception.
OnError(e, x) == HandlerReturns(e, << >>, Message(ErrorPrefix(e.handler, x), x))

Blank(text) == text = None \/ ~Truthy(text) \/ ~Truthy(Strip(text))

\* The end of the handler's try block, once its engine operations are over.
Finish(e) ==
    CASE e.handler = "handle_generate_plan_click" ->
            IF Blank(e.raw)
            THEN HandlerReturns(e, <<"The story plan ran into a problem">>,
                     Message(e.status \o <<"Advanced CoT analysis done", "A problem occurred while processing the story plan">>, NoExc))
            ELSE HandlerReturns(e, e.raw,
                     Message(e.status \o <<"Advanced CoT analysis done", "Story plan done">>, NoExc))
      [] e.handler = "handle_generate_story_from_plan_click" ->
            LET full_story_text == clean_full_story_content(e.raw)
            IN  IF ~Truthy(full_story_text)
                THEN HandlerReturns(e, <<"The full story is empty after parsing">>,
                         Message(e.status \o <<"Advanced CoT analysis done", "Full story empty after parsing">>, NoExc))
                ELSE HandlerReturns(e, full_story_text,
                         Message(e.status \o <<"Advanced CoT analysis done", "Full story done">>, NoExc))
      [] e.handler = "get_suggestions_only" ->
            HandlerReturns(e, None,
                Message(IF Truthy(e.raw) THEN e.raw
                        ELSE <<"No particular suggestions for now">>, NoExc))

\* The coroutine of the handler's k-th engine operation, run to its first
\* await.
Attempt(e, k) == Enter(NewInvocation(StageOp(e, k), StageArgs(e, k)), 1)

\* "if raw_full_story_text.strip():" around the style tuning
Skipped(e, k) ==
    /\ e.handler = "handle_generate_story_from_plan_click"
    /\ k = 2
    /\ ~Truthy(Strip(e.raw))

\* The handler awaits its k-th engine operation, whose first completion
\* call is issued.
Begin(e, k) ==
    [e EXCEPT !.stage = k, !.call = Attempt(e, k),
              !.trace = Append(@, Issued(StageOp(e, k)))]

\* The guarded operations from the k-th on: one that is not called or that
\* raises before its first await is passed over, the first that awaits is
\* awaited, and after the last the handler finishes.
RECURSIVE Enrich(_, _)
Enrich(e, k) ==
    IF k > Len(Stages(e.handler)) THEN Finish(e)
    ELSE IF Skipped(e, k)
    THEN Enrich([e EXCEPT !.trace = Append(@, NotAwaited(StageOp(e, k)))], k + 1)
    ELSE IF Attempt(e, k).pc = "Awaiting" THEN Begin(e, k)
    ELSE Enrich([e EXCEPT !.trace = Append(@, OperationEnded(StageOp(e, k), TRUE, None))],
                k + 1)

\* A handler that takes the text of whichever operation returned last.
AfterOperationKeepingLast(e) ==
    LET raised == e.call.pc = "Raised"
        logged == [e EXCEPT !.trace =
                      Append(@, OperationEnded(StageOp(e, e.stage), raised,
                                               IF raised \/ e.stage > 1 THEN None
                                               ELSE e.call.result[1]))]
    IN  IF e.stage = 1
        THEN IF raised THEN OnError(logged, e.call.error)
             ELSE Enrich([logged EXCEPT !.raw = e.call.result[1],
                                        !.status = Append(@, "Using advanced CoT")],
                         2)
        ELSE Enrich([logged EXCEPT !.raw = IF raised THEN @ ELSE e.call.result[1]],
                    e.stage + 1)

\* The handler after the engine operation it awaited returned or raised.
AfterOperation(e) ==
    LET raised == e.call.pc = "Raised"
        logged == [e EXCEPT !.trace =
                      Append(@, OperationEnded(StageOp(e, e.stage), raised,
                                               IF raised \/ e.stage > 1 THEN None
                                               ELSE e.call.result[1]))]
    IN  IF e.stage = 1
        THEN IF raised THEN OnError(logged, e.call.error)
             ELSE Enrich([logged EXCEPT !.raw = e.call.result[1],
                                        !.status = Append(@, "Using advanced CoT")],
                         2)
        ELSE Enrich(logged, e.stage + 1)

\* "if initialization_error or not cot_engine_instance"
InitFailed == app.initialization_error # NoInitError \/ ~engine.constructed

InitFailureMessage ==
    IF app.initialization_error # NoInitError
    THEN Message(<<"Service initialization failed: ">> \o app.initialization_error.text,
                 app.initialization_error.exc)
    ELSE Message(<<"Service initialization failed: ", "unknown error">>, NoExc)

NoMessage == [none |-> TRUE]

\* Handlers that are content with any one of the fields.
InputProblemAnyGiven(handler, x) ==
    IF Truthy(x.theme) \/ Truthy(x.genre) \/ Truthy(x.pokemon_names)
          \/ Truthy(x.synopsis)
    THEN NoMessage
    ELSE Message(<<"Please fill in all required fields">>, NoExc)

\* The tests of the input fields a handler makes before its try block: the
\* message it returns when one fails, NoMessage when all pass.
InputProblem(handler, x) ==
    LET all_given == /\ Truthy(x.theme) /\ Truthy(x.genre)
                     /\ Truthy(x.pokemon_names) /\ Truthy(x.synopsis)
        any_given == Truthy(x.theme) \/ Truthy(x.pokemon_names) \/ Truthy(x.synopsis)
    IN  CASE handler = "handle_generate_plan_click" ->
                IF all_given THEN NoMessage
                ELSE Message(<<"Please fill in all required fields">>, NoExc)
          [] handler = "handle_generate_story_from_plan_click" ->
                IF ~Truthy(Strip(x.edited_story_plan))
                THEN Message(<<"The story plan is empty">>, NoExc)
                ELSE IF all_given THEN NoMessage
                ELSE Message(<<"The original input fields are incomplete">>, NoExc)
          [] handler = "get_suggestions_only" ->
                IF any_given THEN NoMessage
                ELSE Message(<<"Please enter something to get suggestions">> \o x.genre, NoExc)

\* The handler from its entry to its first await or to its return.
Start(e) ==
    IF InitFailed THEN HandlerReturns(e, << >>, InitFailureMessage)
    ELSE IF InputProblem(e.handler, e.inputs) # NoMessage
    THEN HandlerReturns(e, << >>, InputProblem(e.handler, e.inputs))
    ELSE LET entered == [e EXCEPT !.status = <<"Starting", "Generating">>]
         IN  IF Attempt(entered, 1).pc = "Awaiting" THEN Begin(entered, 1)
             ELSE AfterOperation([entered EXCEPT !.stage = 1,
                                                 !.call = Attempt(entered, 1)])

----------------------------------------------------------------------------
(* The environment of the presentation layer: the framework's events and    *)
(* the provider.                                                            *)

MaxEvents == 2

\* The awaited calls that may end, over all events.
MaxCalls == 6

\* The fields of the form as the framework hands them over: all given, a
\* blank edited plan, a missing theme, nothing but the genre.
FormInputs ==
    LET filled == [theme |-> <<"theme">>, genre |-> <<"genre">>,
                   pokemon_names |-> <<"zh_pikachu", ",", "WS", "zh_unlisted">>,
                   synopsis |-> <<"synopsis1">>, include_abilities |-> TRUE,
                   edited_story_plan |-> <<"edited plan">>]
    IN  {filled,
         [filled EXCEPT !.edited_story_plan = <<"WS">>],
         [filled EXCEPT !.theme = << >>],
         [filled EXCEPT !.theme = << >>, !.pokemon_names = << >>,
                        !.synopsis = << >>, !.include_abilities = FALSE]}

\* How a provider call may end, seen from a handler: an error, no content,
\* a plain text, a review with both markers, a story followed by a feedback
\* line, and a story marker followed by feedback only.
UiOutcomes ==
    {Raises([type |-> "RateLimitError", msg |-> <<"Rate limit reached">>]),
     Responds([choices |-> <<[content |-> None]>>]),
     Responds([choices |-> <<[content |-> <<"a">>]>>]),
     Responds([choices |-> <<[content |-> <<"FBh", "a", "STh", "b">>]>>]),
     Responds([choices |-> <<[content |-> <<"STh", "b", "NL", "FBh", "a">>]>>]),
     Responds([choices |-> <<[content |-> <<"STh", "FBh", "a">>]>>])}

\* What an engine put in place of CoTEngine may raise from an operation.
EngineErrors ==
    {OpenAIConfigError(<<"OpenAI API call failed: ">>),
     [type |-> "RuntimeError", msg |-> <<"unexpected">>]}

UiStores ==
    {SourceTemplates} \cup
    {Drifted(TemplateOf(Methods(op)[1])) :
        op \in {"generate_story_plan", "get_setting_details"}}

UiInit ==
    /\ env_key \in EnvKeys
    /\ settings = ImportSettings(env_key)
    /\ ctor = NotConstructed
    /\ llm_service = NoService
    /\ g_call = [pc |-> "none"]
    /\ g_done = 0
    /\ engine = NoEngine
    /\ sent = << >>
    /\ store \in UiStores
    /\ inv = << >>
    /\ outcomes = << >>
    /\ app = NotInitialized
    /\ h = << >>
    /\ served = 0
    /\ ParserOff /\ NamesOff

\* The module is loaded, as a script or imported: initialize_services runs
\* once, line 44, and the interface is launched or not.
InitializeServices(as_script, client) ==
    /\ ~app.ready
    /\ LET r == initialize_services(client)
       IN  /\ app' = [ready |-> TRUE,
                      initialization_error |-> r.initialization_error,
                      launched |-> Launched(as_script, r.initialization_error)]
           /\ ctor' = IF r.attempted
                      THEN [attempted |-> TRUE, api_key |-> None,
                            model_name |-> "gpt-4.1",
                            exc |-> LLMService_init(None, "gpt-4.1", client).exc]
                      ELSE ctor
           /\ llm_service' = r.llm_service_instance
           /\ engine' = r.cot_engine_instance
    /\ UNCHANGED <<h, served, sent, env_key, settings, g_call, g_done>>
    /\ UNCHANGED <<parserVars, engineVars, namesVars>>

\* The framework calls a handler for an event, whatever the handlers of
\* earlier events are doing (the click wiring of lines 1072-1097 sets no
\* limit); the handler runs to its first await or to its return.
HandleEvent(handler, inputs) ==
    /\ app.ready /\ app.launched
    /\ served < MaxEvents
    /\ h' = Append(Shown, Start(NewEvent(handler, inputs)))
    /\ served' = served + 1
    /\ UNCHANGED <<app, sharedVars, serviceVars>>
    /\ UNCHANGED <<parserVars, engineVars, namesVars>>

\* The handler after the completion call of the operation it awaits ended:
\* the operation awaits its next call, or it is over.
AfterCall(e, raised) ==
    LET logged == [e EXCEPT !.trace = Append(@, Ended(StageOp(e, e.stage), raised))]
    IN  IF e.call.pc = "Awaiting"
        THEN [logged EXCEPT !.trace = Append(@, Issued(StageOp(e, e.stage)))]
        ELSE AfterOperation(logged)

\* The handlers that wait for a provider call.
Waiting == {i \in DOMAIN h : h[i].pc = "running" /\ h[i].call.pc = "Awaiting"}

\* The provider call the handler of event i waits for ends; generate_text
\* returns or raises, the engine operation resumes, and the handler runs to
\* its next await or to its return.
CallEnds(i, outcome) ==
    /\ i \in Waiting
    /\ g_done < MaxCalls
    /\ LET got == generate_text(Deref(engine.llm_service), FALSE, outcome)
       IN  h' = [Shown EXCEPT ![i] =
                    AfterCall([h[i] EXCEPT !.call = IF got.kind = "returned"
                                                    THEN Resume(@, got.text)
                                                    ELSE Fail(@, got.exc)],
                              got.kind = "raised")]
    /\ g_done' = g_done + 1
    /\ UNCHANGED <<app, served, sharedVars, env_key, settings, ctor, llm_service, g_call>>
    /\ UNCHANGED <<parserVars, engineVars, namesVars>>

\* The operation the handler of event i awaits raises x itself (an engine
\* put in place of CoTEngine, which wraps everything it raises).
OperationRaises(i, x) ==
    /\ i \in Waiting
    /\ g_done < MaxCalls
    /\ h' = [Shown EXCEPT ![i] = AfterCall([h[i] EXCEPT !.call = Raise(@, x)], TRUE)]
    /\ g_done' = g_done + 1
    /\ UNCHANGED <<app, served, sharedVars, env_key, settings, ctor, llm_service, g_call>>
    /\ UNCHANGED <<parserVars, engineVars, namesVars>>

UiNext ==
    \/ \E as_script \in BOOLEAN, client \in ClientInitOutcomes :
          InitializeServices(as_script, client)
    \/ \E handler \in Handlers, inputs \in FormInputs : HandleEvent(handler, inputs)
    \/ \E i \in 1..MaxEvents, o \in UiOutcomes : CallEnds(i, o)
    \/ \E i \in 1..MaxEvents, x \in EngineErrors : OperationRaises(i, x)

UiSpec == UiInit /\ [][UiNext]_vars

----------------------------------------------------------------------------

(* Properties.                                                              *)

\* A text that is empty or whitespace only.
AllSpace(t) == \A k \in 1..Len(t) : t[k] = "WS"

Terminal(s) == s.pc \in {"Returned", "Raised"}

\* The last entry of a non-empty sequence.
Last(q) == q[Len(q)]

\* A completion outcome after which the operation must fail: the call
\* raised, or returned nothing where text is required.
FailedOutcome(op, x) ==
    \/ x.kind = "raised"
    \/ x.kind = "returned" /\ AllSpace(x.text)
                           /\ op # "get_input_refinement_suggestions"

TwoCallOps ==
    {"generate_story_plan", "generate_story_from_plan", "generate_complete_story"}

\* C1: for every raw_output and every non-empty fallback content,
\* _parse_reviewer_output returns a ReviewerOutput (both fields, no error)
\* whose revised_content is not empty.
C1_ParserNeverEmpty ==
    (p_pc = "parsed" /\ p_orig # << >>) =>
        /\ DOMAIN p_out = {"feedback", "revised_content"}
        /\ p_out.revised_content # << >>

\* C1 witness: a content marker followed by whitespace only; the fallback
\* content is what comes back.
C1_Witness ==
    /\ p_pc = "parsed"
    /\ p_raw = <<"FBh", "a", "PLh", "WS">>
    /\ p_orig = <<"o">>
    /\ p_out.revised_content = <<"o">>

\* C2: a generate_story_plan that returns has sent exactly two prompts, the
\* planning prompt holding the caller's synopsis and then the review prompt
\* holding, as story_plan_to_review, the text the first call returned; and a
\* call is only ever issued once every earlier call has completed.
C2_PlanThenReview ==
    \A i \in DOMAIN inv :
        LET s == inv[i]
            o == outcomes[i]
        IN  s.op = "generate_story_plan" =>
              /\ Len(s.calls) <= Len(o) + 1
              /\ s.pc = "Returned" =>
                    /\ Len(s.calls) = 2
                    /\ Len(o) = 2
                    /\ s.calls[1].template = "STORY_PLANNING_PROMPT_TEMPLATE"
                    /\ s.calls[1].fields["synopsis"] = s.args.synopsis
                    /\ o[1].kind = "returned"
                    /\ s.calls[2].template = "STORY_PLAN_REVIEW_REVISE_PROMPT_TEMPLATE"
                    /\ s.calls[2].fields["story_plan_to_review"] = o[1].text

\* C2 witness: a generate_story_plan that returned after its two calls.
C2_Witness ==
    \E i \in DOMAIN inv :
        /\ inv[i].op = "generate_story_plan"
        /\ inv[i].pc = "Returned"
        /\ Len(inv[i].calls) = 2
        /\ outcomes[i][1] = Returned(<<"a">>)
        /\ inv[i].calls[2].fields["story_plan_to_review"] = <<"a">>
        /\ inv[i].args.synopsis = <<"synopsis2">>

\* C3: in generate_story_plan and generate_story_from_plan, a first
\* completion call that returns an empty or whitespace-only text makes the
\* operation raise StoryGenerationError with no second call.
C3_EmptyFirstCallFailsFast ==
    \A i \in DOMAIN inv :
        LET s == inv[i]
            o == outcomes[i]
        IN  ( /\ s.op \in {"generate_story_plan", "generate_story_from_plan"}
              /\ Len(o) >= 1
              /\ o[1].kind = "returned"
              /\ AllSpace(o[1].text) ) =>
                /\ s.pc = "Raised"
                /\ s.error.type = "StoryGenerationError"
                /\ Len(s.calls) = 1
                /\ Len(o) = 1

\* C3 witness: generate_story_from_plan whose first call returned one
\* whitespace character.
C3_Witness ==
    \E i \in DOMAIN inv :
        /\ inv[i].op = "generate_story_from_plan"
        /\ outcomes[i] = <<Returned(<<"WS">>)>>
        /\ inv[i].pc = "Raised"
        /\ Len(inv[i].calls) = 1

\* C6: when the parser finds its revised-content marker (the outline's or
\* the full story's) and the trimmed text after it begins with either
\* sentinel phrase, revised_content is the fallback content, whatever
\* follows the phrase.
C6_SentinelFallback ==
    p_pc = "parsed" =>
        \A m \in {plan_content_marker, story_content_marker} :
            LET at == Find(p_raw, m)
                after == Strip(SliceFrom(p_raw, at + Len(m)))
            IN  ( /\ content_marker(p_raw) = m
                  /\ at # -1
                  /\ \/ StartsWith(after, SentinelPlan)
                     \/ StartsWith(after, SentinelStory) ) =>
                    p_out.revised_content = p_orig

\* C6 witness: the full-story marker followed by the full-story sentinel
\* phrase and more text.
C6_Witness ==
    /\ p_pc = "parsed"
    /\ p_raw = <<"STh", "WS", "S2", "a">>
    /\ p_orig = <<"o", "WS", "o">>
    /\ p_out.revised_content = <<"o", "WS", "o">>

MarkerTokens == {"FBh", "FBf", "PLh", "PLf", "STh", "STf"}

\* A reply "<feedback marker> F <revised-outline marker> C" with both
\* markers in one colon style and no other marker in it.
PlanReplyForm(r) ==
    /\ Len(r) >= 2
    /\ r[1] \in {"FBh", "FBf"}
    /\ \E j \in 2..Len(r) :
          /\ r[j] = (IF r[1] = "FBh" THEN "PLh" ELSE "PLf")
          /\ \A k \in 2..Len(r) : k # j => r[k] \notin MarkerTokens

\* The trimmed text C after the revised-outline marker of such a reply.
RevisedSection(r) ==
    LET j == CHOOSE k \in 2..Len(r) : r[k] \in {"PLh", "PLf"}
    IN  Strip(SliceFrom(r, j))

\* C4: when the review call of generate_story_plan returns
\* "<feedback marker> F <revised-outline marker> C", in either colon style,
\* with C non-empty and not beginning with a sentinel phrase,
\* generate_story_plan returns exactly the trimmed C.
C4_RevisedPlanReturned ==
    \A i \in DOMAIN inv :
        LET s == inv[i]
            o == outcomes[i]
        IN  ( /\ s.op = "generate_story_plan"
              /\ Len(o) = 2
              /\ o[2].kind = "returned"
              /\ PlanReplyForm(o[2].text)
              /\ RevisedSection(o[2].text) # << >>
              /\ RevisedSection(o[2].text)[1] \notin {"S1", "S2"} ) =>
                /\ s.pc = "Returned"
                /\ s.result = <<RevisedSection(o[2].text)>>

\* The statement of C4 for the half-width colon alone, which the parser
\* satisfies.
C4_HalfWidthOnly ==
    \A i \in DOMAIN inv :
        LET s == inv[i]
            o == outcomes[i]
        IN  ( /\ s.op = "generate_story_plan"
              /\ Len(o) = 2
              /\ o[2].kind = "returned"
              /\ PlanReplyForm(o[2].text)
              /\ o[2].text[1] = "FBh"
              /\ RevisedSection(o[2].text) # << >>
              /\ RevisedSection(o[2].text)[1] \notin {"S1", "S2"} ) =>
                /\ s.pc = "Returned"
                /\ s.result = <<RevisedSection(o[2].text)>>

\* C5: when the review call of generate_story_plan returns a reply whose
\* revised-outline section is the sentinel sentence, in either colon style,
\* generate_story_plan returns exactly the plan the first call returned.
C5_SentinelKeepsPlan ==
    \A i \in DOMAIN inv :
        LET s == inv[i]
            o == outcomes[i]
        IN  ( /\ s.op = "generate_story_plan"
              /\ Len(o) = 2
              /\ o[2].kind = "returned"
              /\ PlanReplyForm(o[2].text)
              /\ StartsWith(RevisedSection(o[2].text), <<"S1">>) ) =>
                /\ s.pc = "Returned"
                /\ s.result = <<o[1].text>>

\* The statement of C5 for the half-width colon alone, which the parser
\* satisfies.
C5_HalfWidthOnly ==
    \A i \in DOMAIN inv :
        LET s == inv[i]
            o == outcomes[i]
        IN  ( /\ s.op = "generate_story_plan"
              /\ Len(o) = 2
              /\ o[2].kind = "returned"
              /\ PlanReplyForm(o[2].text)
              /\ o[2].text[1] = "FBh"
              /\ StartsWith(RevisedSection(o[2].text), <<"S1">>) ) =>
                /\ s.pc = "Returned"
                /\ s.result = <<o[1].text>>

\* C7: an operation raises nothing but StoryGenerationError; when its
\* completion call raised, or formatting its prompt raised KeyError, it
\* raises StoryGenerationError with that exception as its cause and a message
\* naming the stage of the method that failed.
C7_ErrorsWrapped ==
    \A i \in DOMAIN inv :
        LET s == inv[i]
            o == outcomes[i]
        IN  /\ s.error.type \in {"None", "StoryGenerationError"}
            /\ (s.pc = "Raised") <=> (s.error.type = "StoryGenerationError")
            /\ s.pc = "Raised" =>
                  /\ s.error.cause.type # "None"
                  /\ s.error.stage \in {StageLabel(CurrentMethod(s)),
                                        UnexpectedStageLabel(CurrentMethod(s))}
            /\ (Len(o) > 0 /\ Last(o).kind = "raised") =>
                  /\ s.pc = "Raised"
                  /\ s.error.cause = Last(o).exc
            /\ ( /\ Terminal(s)
                 /\ ~(store[TemplateOf(CurrentMethod(s))]
                         \subseteq SourceTemplates[TemplateOf(CurrentMethod(s))])
                 /\ Len(s.calls) < s.step ) =>
                  /\ s.pc = "Raised"
                  /\ s.error.cause.type = "KeyError"
                  /\ s.error.cause.tag = "Placeholder not provided"

\* C7 witness: the review template asks for a placeholder the engine does
\* not supply; generate_story_plan raises after its first call, the
\* KeyError as cause.
C7_Witness ==
    \E i \in DOMAIN inv :
        /\ inv[i].op = "generate_story_plan"
        /\ inv[i].pc = "Raised"
        /\ Len(outcomes[i]) = 1
        /\ inv[i].error.type = "StoryGenerationError"
        /\ inv[i].error.stage = "plan review"
        /\ inv[i].error.cause.type = "KeyError"
        /\ inv[i].error.cause.tag = "Placeholder not provided"

\* C8: the engine never retries.  In every step: an operation that has
\* finished does nothing more; a completion call that failed, or returned
\* nothing where text is required, ends the operation in error with no new
\* call; a method is never entered again once entered (a new call belongs to
\* a later method); and a two-phase operation has sent at most 2 calls, a
\* single-shot one at most 1.
C8_NoRetry ==
    [][\A i \in DOMAIN inv :
          LET s == inv[i]
              t == inv'[i]
          IN  /\ Terminal(s) => t = s
              /\ t.step >= s.step
              /\ Len(t.calls) > Len(s.calls) => t.step > s.step
              /\ Len(t.calls) <= (IF s.op \in TwoCallOps THEN 2 ELSE 1)
              /\ ( /\ outcomes'[i] # outcomes[i]
                   /\ FailedOutcome(s.op, Last(outcomes'[i])) ) =>
                    /\ t.pc = "Raised"
                    /\ t.calls = s.calls
      ]_vars

\* C8 witness: generate_complete_story whose plan call returned text and
\* whose story call returned nothing: two calls, then the error.
C8_Witness ==
    \E i \in DOMAIN inv :
        /\ inv[i].op = "generate_complete_story"
        /\ Len(outcomes[i]) = 2
        /\ outcomes[i][1] = Returned(<<"a">>)
        /\ outcomes[i][2] = Returned(<< >>)
        /\ inv[i].pc = "Raised"
        /\ Len(inv[i].calls) = 2

\* C9: a failed operation returns no artifact: whenever a completion call
\* failed or returned nothing where text is required (the story call of
\* generate_complete_story after its plan, the review call after the initial
\* content), the operation raises and has no result.
C9_NoArtifactOnFailure ==
    \A i \in DOMAIN inv :
        LET s == inv[i]
            o == outcomes[i]
        IN  /\ s.pc # "Returned" => s.result = NoResult
            /\ (Len(o) > 0 /\ FailedOutcome(s.op, Last(o))) =>
                  /\ s.pc = "Raised"
                  /\ s.result = NoResult

\* C9 witness: generate_story_plan whose plan call returned a plan and
\* whose review call raised.
C9_Witness ==
    \E i \in DOMAIN inv :
        /\ inv[i].op = "generate_story_plan"
        /\ Len(outcomes[i]) = 2
        /\ outcomes[i][1] = Returned(<<"a">>)
        /\ outcomes[i][2].kind = "raised"
        /\ inv[i].pc = "Raised"
        /\ inv[i].result = NoResult

\* An invocation holds a result exactly when it returned and an error
\* exactly when it raised.
OutcomeWellFormed(s) ==
    /\ s.pc = "Returned" => (s.result # NoResult /\ s.error = NoExc)
    /\ s.pc = "Raised" =>
          (s.result = NoResult /\ s.error.type = "StoryGenerationError")
    /\ s.pc \in {"Pending", "Awaiting"} => (s.result = NoResult /\ s.error = NoExc)

\* C10: provided every completion call returns or fails, every invocation
\* eventually finishes, either returned with its artifact or raised with one
\* StoryGenerationError, and never both or neither.
C10_Terminates ==
    \A i \in InvIds :
        /\ <>(Terminal(inv[i]))
        /\ [](OutcomeWellFormed(inv[i]))

\* C10 witness: tune_story_style_tone returned the text of its one call.
C10_Witness ==
    \E i \in DOMAIN inv :
        /\ inv[i].op = "tune_story_style_tone"
        /\ inv[i].pc = "Returned"
        /\ outcomes[i] = <<Returned(<<"FBh", "a", "WS">>)>>
        /\ inv[i].result = <<<<"FBh", "a", "WS">>>>

\* C11: generate_complete_story sends at most two prompts and none of them is
\* a review prompt, it never runs the reviewer-output parser, and when it
\* returns it has sent exactly two, the planning prompt and then the story
\* prompt whose story_plan is the text the plan call returned; its result is
\* the pair of the two returned texts, unchanged.
C11_CompleteStoryTwoCalls ==
    \A i \in DOMAIN inv :
        LET s == inv[i]
            o == outcomes[i]
        IN  s.op = "generate_complete_story" =>
              /\ Len(s.calls) <= 2
              /\ Len(s.calls) <= Len(o) + 1
              /\ s.review = NoOutput
              /\ \A k \in 1..Len(s.calls) :
                    s.calls[k].template \notin
                        {"STORY_PLAN_REVIEW_REVISE_PROMPT_TEMPLATE",
                         "FULL_STORY_REVIEW_REVISE_PROMPT_TEMPLATE"}
              /\ s.pc = "Returned" =>
                    /\ Len(s.calls) = 2
                    /\ Len(o) = 2
                    /\ o[1].kind = "returned" /\ o[2].kind = "returned"
                    /\ s.calls[1].template = "STORY_PLANNING_PROMPT_TEMPLATE"
                    /\ s.calls[2].template =
                           "STORY_GENERATION_FROM_PLAN_PROMPT_TEMPLATE"
                    /\ s.calls[2].fields["story_plan"] = o[1].text
                    /\ s.result = <<o[1].text, o[2].text>>

\* C11 witness: both calls returned texts that look like reviewer replies
\* and carry surrounding whitespace; the pair comes back as it was sent.
C11_Witness ==
    \E i \in DOMAIN inv :
        /\ inv[i].op = "generate_complete_story"
        /\ inv[i].pc = "Returned"
        /\ outcomes[i] = <<Returned(<<"WS", "a", "a", "WS">>),
                           Returned(<<"FBh", "a", "WS", "PLh", "b">>)>>
        /\ inv[i].result = <<<<"WS", "a", "a", "WS">>,
                             <<"FBh", "a", "WS", "PLh", "b">>>>

\* C12: generate_story_from_plan threads the caller's plan through both
\* phases: the generation prompt and the review prompt both hold the
\* caller's story_plan, the review prompt holds the text the generation call
\* returned as full_story_to_review, and the parser's fallback content is
\* that generated story: the result is the parse of the review reply against
\* it, and a feedback-only review reply gives the generated story back.
C12_PlanThreadedThroughStory ==
    \A i \in DOMAIN inv :
        LET s == inv[i]
            o == outcomes[i]
        IN  s.op = "generate_story_from_plan" =>
              /\ Len(s.calls) >= 1 =>
                    /\ s.calls[1].template =
                           "STORY_GENERATION_FROM_PLAN_PROMPT_TEMPLATE"
                    /\ s.calls[1].fields["story_plan"] = s.args.story_plan
              /\ Len(s.calls) >= 2 =>
                    /\ Len(o) >= 1 /\ o[1].kind = "returned"
                    /\ s.calls[2].template =
                           "FULL_STORY_REVIEW_REVISE_PROMPT_TEMPLATE"
                    /\ s.calls[2].fields["story_plan"] = s.args.story_plan
                    /\ s.calls[2].fields["full_story_to_review"] = o[1].text
              /\ s.pc = "Returned" =>
                    /\ Len(o) = 2
                    /\ s.review = _parse_reviewer_output(o[2].text, o[1].text)
                    /\ s.result = <<s.review.revised_content>>
                    /\ ( /\ Find(o[2].text, feedback_marker) # -1
                         /\ Find(o[2].text, plan_content_marker) = -1
                         /\ Find(o[2].text, story_content_marker) = -1 ) =>
                          s.result = <<o[1].text>>

\* C12 witness: the story call returned a story, the review call returned
\* feedback only; the generated story, not the plan, comes back.
C12_Witness ==
    \E i \in DOMAIN inv :
        /\ inv[i].op = "generate_story_from_plan"
        /\ inv[i].pc = "Returned"
        /\ inv[i].args.story_plan = <<"edited plan">>
        /\ outcomes[i] = <<Returned(<<"WS", "a", "a", "WS">>),
                           Returned(<<"FBh", "a", "WS">>)>>
        /\ inv[i].calls[2].fields["story_plan"] = <<"edited plan">>
        /\ inv[i].result = <<<<"WS", "a", "a", "WS">>>>

\* C13: when the parser finds its feedback marker and no revised-content
\* marker, revised_content is the fallback content and feedback is the
\* trimmed text from the end of the feedback marker to the end of the raw
\* text.
C13_FeedbackOnlyKeepsOriginal ==
    ( /\ p_pc = "parsed"
      /\ Find(p_raw, feedback_marker) # -1
      /\ Find(p_raw, plan_content_marker) = -1
      /\ Find(p_raw, story_content_marker) = -1 ) =>
        /\ p_out.revised_content = p_orig
        /\ p_out.feedback =
               Strip(SliceFrom(p_raw, Find(p_raw, feedback_marker)
                                          + Len(feedback_marker)))

\* C13 witness: text, the feedback marker, then feedback in whitespace.
C13_Witness ==
    /\ p_pc = "parsed"
    /\ p_raw = <<"a", "FBh", "WS", "a">>
    /\ p_orig = <<"o", "WS", "o">>
    /\ p_out = ReviewerOutput(<<"a">>, <<"o", "WS", "o">>)

\* The parser's two offsets and the two trimmed texts they cut out, for a
\* raw text in which it finds both markers, the feedback marker first.
FeedbackFirst(raw) ==
    /\ Find(raw, feedback_marker) # -1
    /\ Find(raw, content_marker(raw)) # -1
    /\ Find(raw, feedback_marker) < Find(raw, content_marker(raw))

TextBetweenMarkers(raw) ==
    Strip(Slice(raw, Find(raw, feedback_marker) + Len(feedback_marker),
                Find(raw, content_marker(raw))))

TextAfterContentMarker(raw) ==
    Strip(SliceFrom(raw, Find(raw, content_marker(raw))
                         + Len(content_marker(raw))))

\* C14 as stated: when both markers are found, the feedback marker first,
\* feedback is the trimmed text between them, and revised_content is the
\* trimmed text after the content marker when that is non-empty and does not
\* begin with a sentinel phrase.
C14_FeedbackBetweenMarkers ==
    (p_pc = "parsed" /\ FeedbackFirst(p_raw)) =>
        /\ p_out.feedback = TextBetweenMarkers(p_raw)
        /\ ( /\ TextAfterContentMarker(p_raw) # << >>
             /\ ~StartsWith(TextAfterContentMarker(p_raw), SentinelPlan)
             /\ ~StartsWith(TextAfterContentMarker(p_raw), SentinelStory) ) =>
              p_out.revised_content = TextAfterContentMarker(p_raw)

\* C14 amended: the same, except that when the text between the markers is
\* empty and the text after the content marker begins with a sentinel
\* phrase, feedback is the parser's own "no revision needed" message.
C14_FeedbackBetweenMarkersAmended ==
    (p_pc = "parsed" /\ FeedbackFirst(p_raw)) =>
        /\ p_out.feedback =
              IF /\ TextBetweenMarkers(p_raw) = << >>
                 /\ \/ StartsWith(TextAfterContentMarker(p_raw), SentinelPlan)
                    \/ StartsWith(TextAfterContentMarker(p_raw), SentinelStory)
              THEN FeedbackNoRevisionNeeded
              ELSE TextBetweenMarkers(p_raw)
        /\ ( /\ TextAfterContentMarker(p_raw) # << >>
             /\ ~StartsWith(TextAfterContentMarker(p_raw), SentinelPlan)
             /\ ~StartsWith(TextAfterContentMarker(p_raw), SentinelStory) ) =>
              p_out.revised_content = TextAfterContentMarker(p_raw)

\* C14 witness: feedback, then the full-story marker and a revised story.
C14_Witness ==
    /\ p_pc = "parsed"
    /\ p_raw = <<"FBh", "a", "STh", "a">>
    /\ p_orig = <<"o">>
    /\ p_out = ReviewerOutput(<<"a">>, <<"a">>)

\* The offset of the leftmost revised-content marker of either kind
\* (outline or full story), -1 when the raw text holds neither.
FirstContentMarker(raw) ==
    LET hits == {k \in 0..(Len(raw) - 1) : raw[k + 1] \in {"PLh", "STh"}}
    IN  IF hits = {} THEN -1 ELSE CHOOSE k \in hits : \A j \in hits : k <= j

\* C15: the revised content is taken from after the leftmost
\* revised-content marker, whichever of the two it is: when the trimmed text
\* after it is non-empty and does not begin with a sentinel phrase, that
\* text is revised_content.
C15_LeftmostContentMarker ==
    (p_pc = "parsed" /\ FirstContentMarker(p_raw) # -1) =>
        LET after == Strip(SliceFrom(p_raw, FirstContentMarker(p_raw) + 1))
        IN  ( /\ after # << >>
              /\ ~StartsWith(after, SentinelPlan)
              /\ ~StartsWith(after, SentinelStory) ) =>
                p_out.revised_content = after

\* The tokens of the raw text that hold "已達標" ("already up to standard").
HasSentinelSubstring(raw) == \E k \in 1..Len(raw) : raw[k] \in {"S1", "S2"}

\* A raw text with no marker of either kind in either colon style.
NoMarkerAtAll(raw) == \A k \in 1..Len(raw) : raw[k] \notin MarkerTokens

\* C16: when neither marker is found and the non-empty raw text holds a
\* sentinel substring anywhere, revised_content is the fallback content and
\* not the raw text.
C16_SentinelAnywhereFallsBack ==
    ( /\ p_pc = "parsed"
      /\ NoMarkerAtAll(p_raw)
      /\ Strip(p_raw) # << >>
      /\ HasSentinelSubstring(p_raw) ) =>
        /\ p_out.revised_content = p_orig
        /\ p_out.feedback # FeedbackNoMarkers

\* C17: when the parser finds neither marker and the raw text is non-empty
\* after trimming and holds no sentinel substring, revised_content is the
\* raw text trimmed and feedback is the one fixed placeholder.
C17_PlainTextIsRevision ==
    ( /\ p_pc = "parsed"
      /\ Find(p_raw, feedback_marker) = -1
      /\ Find(p_raw, plan_content_marker) = -1
      /\ Find(p_raw, story_content_marker) = -1
      /\ \E k \in 1..Len(p_raw) : p_raw[k] # "WS"
      /\ ~HasSentinelSubstring(p_raw) ) =>
        /\ p_out.revised_content = Strip(p_raw)
        /\ p_out.feedback = FeedbackNoMarkers

\* C17 witness: plain text in whitespace comes back trimmed.
C17_Witness ==
    /\ p_pc = "parsed"
    /\ p_raw = <<"WS", "a", "a", "WS">>
    /\ p_orig = <<"o">>
    /\ p_out = ReviewerOutput(FeedbackNoMarkers, <<"a", "a">>)

\* C18: when the raw text is empty or all whitespace, revised_content is the
\* fallback content and feedback is the fixed "bad format or empty"
\* placeholder.
C18_EmptyReplyFallsBack ==
    (p_pc = "parsed" /\ AllSpace(p_raw)) =>
        p_out = ReviewerOutput(FeedbackBadFormat, p_orig)

\* C18 witness: a raw text of two whitespace characters.
C18_Witness ==
    /\ p_pc = "parsed"
    /\ p_raw = <<"WS", "WS">>
    /\ p_orig = <<"o", "WS", "o">>
    /\ p_out = ReviewerOutput(FeedbackBadFormat, <<"o", "WS", "o">>)

\* A field of the suggestion prompt: the caller's text, or the placeholder
\* when the caller gave None or an empty text.
Substituted(x, placeholder) == IF x \in {None, << >>} THEN placeholder ELSE x

\* C19: get_input_refinement_suggestions never sends more than one prompt;
\* with the templates as the source has them it sends exactly one, whatever
\* fields are missing, each missing field replaced by its placeholder; an
\* empty or whitespace-only reply makes it return the fixed default message
\* and not raise, any other reply is returned itself.
C19_SuggestionsTolerant ==
    \A i \in DOMAIN inv :
        LET s == inv[i]
            o == outcomes[i]
        IN  s.op = "get_input_refinement_suggestions" =>
              /\ Len(s.calls) <= 1
              /\ Len(o) <= 1
              /\ (store = SourceTemplates /\ s.pc # "Pending") =>
                    /\ Len(s.calls) = 1
                    /\ s.calls[1].template =
                           "INPUT_REFINEMENT_SUGGESTION_PROMPT_TEMPLATE"
                    /\ s.calls[1].fields["theme"] =
                           Substituted(s.args.theme, <<"Not specified">>)
                    /\ s.calls[1].fields["genre"] =
                           Substituted(s.args.genre, <<"Any">>)
                    /\ s.calls[1].fields["pokemon_names"] =
                           Substituted(s.args.pokemon_names, <<"None specified">>)
                    /\ s.calls[1].fields["synopsis"] =
                           Substituted(s.args.synopsis, <<"Not specified">>)
              /\ (Len(o) = 1 /\ o[1].kind = "returned") =>
                    /\ s.pc = "Returned"
                    /\ s.error = NoExc
                    /\ s.result = IF AllSpace(o[1].text)
                                  THEN <<DefaultSuggestion>>
                                  ELSE <<o[1].text>>

\* C19 witness: no theme, genre, names or synopsis given, and a reply of one
\* whitespace character: the default message is returned.
C19_Witness ==
    \E i \in DOMAIN inv :
        /\ inv[i].op = "get_input_refinement_suggestions"
        /\ inv[i].args.theme = None
        /\ inv[i].args.genre = << >>
        /\ inv[i].args.pokemon_names = None
        /\ inv[i].args.synopsis = << >>
        /\ outcomes[i] = <<Returned(<<"WS">>)>>
        /\ inv[i].pc = "Returned"
        /\ inv[i].result = <<DefaultSuggestion>>

EnrichmentOps ==
    {"get_synopsis_elaborations", "get_character_profiles",
     "get_setting_details", "get_plot_twist_suggestions",
     "tune_story_style_tone", "get_story_branching_suggestions"}

\* C20: an enrichment operation sends at most one prompt, its own template's
\* and never a review prompt, and never runs the reviewer-output parser; with
\* the templates as the source has them it sends exactly one; an empty or
\* whitespace-only reply makes it raise StoryGenerationError, any other reply
\* is returned unchanged.
C20_EnrichmentSingleShot ==
    \A i \in DOMAIN inv :
        LET s == inv[i]
            o == outcomes[i]
        IN  s.op \in EnrichmentOps =>
              /\ Len(s.calls) <= 1
              /\ Len(o) <= 1
              /\ s.review = NoOutput
              /\ \A k \in 1..Len(s.calls) :
                    /\ s.calls[k].template = TemplateOf(s.op)
                    /\ s.calls[k].template \notin
                           {"STORY_PLAN_REVIEW_REVISE_PROMPT_TEMPLATE",
                            "FULL_STORY_REVIEW_REVISE_PROMPT_TEMPLATE"}
              /\ (store = SourceTemplates /\ s.pc # "Pending") =>
                    Len(s.calls) = 1
              /\ (Len(o) = 1 /\ o[1].kind = "returned" /\ AllSpace(o[1].text)) =>
                    /\ s.pc = "Raised"
                    /\ s.error.type = "StoryGenerationError"
                    /\ s.result = NoResult
              /\ (Len(o) = 1 /\ o[1].kind = "returned" /\ ~AllSpace(o[1].text)) =>
                    /\ s.pc = "Returned"
                    /\ s.result = <<o[1].text>>

\* C20 witness: get_story_branching_suggestions whose call returned a text
\* that looks like a reviewer reply, in whitespace; it comes back unchanged.
C20_Witness ==
    \E i \in DOMAIN inv :
        /\ inv[i].op = "get_story_branching_suggestions"
        /\ outcomes[i] = <<Returned(<<"PLh", "S1", "a", "WS", "FBh">>)>>
        /\ inv[i].pc = "Returned"
        /\ inv[i].result = <<<<"PLh", "S1", "a", "WS", "FBh">>>>
        /\ Len(inv[i].calls) = 1

\* The feedback the parser cuts out of a raw text in which it finds its
\* content marker: nothing without a feedback marker, else the trimmed text
\* from the feedback marker up to the content marker.
FeedbackCutOut(raw) ==
    IF Find(raw, feedback_marker) = -1 THEN << >>
    ELSE TextBetweenMarkers(raw)

\* C29: when the text after the content marker begins with a sentinel
\* phrase, feedback is the parser's "no revision needed" message if the
\* feedback cut out of the raw text is empty, and that feedback unchanged
\* if it is not.
C29_CannedFeedbackOnlyWhenEmpty ==
    ( /\ p_pc = "parsed"
      /\ Find(p_raw, content_marker(p_raw)) # -1
      /\ \/ StartsWith(TextAfterContentMarker(p_raw), SentinelPlan)
         \/ StartsWith(TextAfterContentMarker(p_raw), SentinelStory) ) =>
        p_out.feedback = IF FeedbackCutOut(p_raw) = << >>
                         THEN FeedbackNoRevisionNeeded
                         ELSE FeedbackCutOut(p_raw)

\* C29 witness: a sentinel after the full-story marker and no feedback
\* marker; the parser writes its own feedback and keeps the original.
C29_Witness ==
    /\ p_pc = "parsed"
    /\ p_orig = <<"o">>
    /\ p_raw = <<"STh", "WS", "S2">>
    /\ p_out = ReviewerOutput(FeedbackNoRevisionNeeded, <<"o">>)

\* C30: in generate_story_plan and generate_story_from_plan, a review call
\* that returns an empty or whitespace-only text makes the operation raise
\* StoryGenerationError: nothing is returned, the initial content included,
\* and the parser is not run; whenever the parser was run, the review text
\* it was given was neither empty nor whitespace only.
C30_EmptyReviewRaises ==
    \A i \in DOMAIN inv :
        LET s == inv[i]
            o == outcomes[i]
        IN  s.op \in {"generate_story_plan", "generate_story_from_plan"} =>
              /\ ( /\ Len(o) = 2
                   /\ o[2].kind = "returned"
                   /\ AllSpace(o[2].text) ) =>
                     /\ s.pc = "Raised"
                     /\ s.error.type = "StoryGenerationError"
                     /\ s.error.cause = EmptyResponseError(CurrentMethod(s))
                     /\ s.result = NoResult
                     /\ s.review = NoOutput
              /\ s.review # NoOutput =>
                     /\ Len(o) = 2
                     /\ o[2].kind = "returned"
                     /\ ~AllSpace(o[2].text)

\* C30 witness: generate_story_plan whose first call returned a plan and
\* whose review call returned one whitespace character.
C30_Witness ==
    \E i \in DOMAIN inv :
        /\ inv[i].op = "generate_story_plan"
        /\ outcomes[i] = <<Returned(<<"a">>), Returned(<<"WS">>)>>
        /\ inv[i].pc = "Raised"
        /\ inv[i].produced = <<<<"a">>>>
        /\ inv[i].result = NoResult
        /\ Len(inv[i].calls) = 2

\* The comma-separated pieces of a names text, read off the positions of its
\* commas: piece j lies between the (j-1)-th and the j-th comma.
CommaPositions(s) == {k \in 1..Len(s) : s[k] = ","}

NthComma(s, j) ==
    IF j = 0 THEN 0
    ELSE IF j > Cardinality(CommaPositions(s)) THEN Len(s) + 1
    ELSE CHOOSE k \in CommaPositions(s) :
             Cardinality({c \in CommaPositions(s) : c <= k}) = j

Piece(s, j) == SubSeq(s, NthComma(s, j - 1) + 1, NthComma(s, j) - 1)

\* A piece without its leading and trailing whitespace.
Trimmed(x) ==
    LET ink == {k \in 1..Len(x) : x[k] # "WS"}
    IN  IF ink = {} THEN << >>
        ELSE SubSeq(x, CHOOSE k \in ink : \A l \in ink : k <= l,
                       CHOOSE k \in ink : \A l \in ink : l <= k)

\* The trimmed pieces in input order.
TrimmedPieces(s) ==
    [j \in 1..(Cardinality(CommaPositions(s)) + 1) |-> Trimmed(Piece(s, j))]

\* "<name> (<alternate name>)" for a listed name, the token itself otherwise.
WithAlternateName(t) ==
    IF \E z \in DOMAIN PokemonTable : t = <<z>>
    THEN <<t[1], "WS", "(", PokemonTable[t[1]], ")">>
    ELSE t

\* The first k of the parts, each formatted, with ", " between them.
JoinedUpTo(parts, k) ==
    LET J[n \in 0..Len(parts)] ==
            IF n = 0 THEN << >>
            ELSE IF n = 1 THEN WithAlternateName(parts[1])
            ELSE J[n - 1] \o <<",", "WS">> \o WithAlternateName(parts[n])
    IN  J[k]

NonEmpty(t) == t # << >>

\* C24 as stated: the result is the trimmed comma-separated pieces of the
\* input, each listed name followed by its alternate name in parentheses and
\* each other piece unchanged, joined by ", " in input order.
C24_NamesFormatted ==
    n_pc = "formatted" =>
        n_out = JoinedUpTo(TrimmedPieces(n_in), Len(TrimmedPieces(n_in)))

\* C24 amended: the same, of the trimmed pieces that are not empty; a piece
\* that is empty once trimmed is left out of the result.
C24_NamesFormattedAmended ==
    n_pc = "formatted" =>
        LET kept == SelectSeq(TrimmedPieces(n_in), NonEmpty)
        IN  n_out = JoinedUpTo(kept, Len(kept))

\* C24 witness: an unlisted name, a comma, a space and a listed name.
C24_Witness ==
    /\ n_pc = "formatted"
    /\ n_in = <<"zh_unlisted", ",", "WS", "zh_eevee">>
    /\ n_out = <<"zh_unlisted", ",", "WS", "zh_eevee", "WS", "(", "en_eevee", ")">>

\* The key the constructor ends up with: the argument unless it is None,
\* else what the environment holds.
ResolvedKey(api_key) == IF api_key # None THEN api_key ELSE env_key

\* No usable credential: none given and none in the environment, or the
\* resolved key is empty.
NoUsableCredential(api_key) ==
    \/ api_key = None /\ env_key = None
    \/ ResolvedKey(api_key) = << >>

\* C21: importing the settings raises nothing, whatever the environment
\* holds; constructing LLMService with no usable credential raises
\* OpenAIConfigError, and then no service object (hence no provider client)
\* exists and no generate_text call has been or can be made.
C21_MissingCredentialFailsAtConstruction ==
    /\ settings.loaded =>
          /\ settings.import_error = NoExc
          /\ settings.OPENAI_API_KEY = env_key
    /\ (ctor.attempted /\ NoUsableCredential(ctor.api_key)) =>
          /\ ctor.exc.type = "OpenAIConfigError"
          /\ llm_service = NoService
          /\ g_call.pc = "none"
          /\ g_done = 0
          /\ ~ENABLED (\E p \in ServicePrompts, st \in BOOLEAN :
                           CallGenerateText(p, st))

\* C21 witness: no key in the environment, the settings imported without
\* error, LLMService() constructed without a key and raising.
C21_Witness ==
    /\ env_key = None
    /\ settings.loaded /\ settings.import_error = NoExc
    /\ ctor.attempted /\ ctor.api_key = None
    /\ ctor.exc = OpenAIConfigError(MissingKeyMessage)
    /\ llm_service = NoService

\* A response from which response.choices[0].message.content cannot be read.
Malformed(response) ==
    \/ "choices" \notin DOMAIN response
    \/ response.choices = << >>

\* C22: when the provider call raises, generate_text raises
\* OpenAIConfigError and the message of the original error is part of its
\* message; so it does when a response of a plain (non-streaming) call
\* cannot be read; and whatever generate_text raises is an
\* OpenAIConfigError.
C22_ProviderErrorsWrapped ==
    g_call.pc = "done" =>
        /\ g_call.provider.kind = "raises" =>
              /\ g_call.result.kind = "raised"
              /\ g_call.result.exc.type = "OpenAIConfigError"
              /\ Contains(g_call.result.exc.msg, g_call.provider.exc.msg)
        /\ ( /\ g_call.provider.kind = "responds"
             /\ ~g_call.stream
             /\ Malformed(g_call.provider.response) ) =>
              /\ g_call.result.kind = "raised"
              /\ g_call.result.exc.type = "OpenAIConfigError"
        /\ g_call.result.kind = "raised" =>
              g_call.result.exc.type = "OpenAIConfigError"

\* C22 witness: the provider call fails with a rate-limit error.
C22_Witness ==
    /\ g_call.pc = "done"
    /\ g_call.provider.kind = "raises"
    /\ g_call.provider.exc.type = "RateLimitError"
    /\ g_call.result =
          Raised(OpenAIConfigError(<<"OpenAI API call failed: ", "Rate limit reached">>))

\* C23: a provider response whose content is None, empty or whitespace only
\* makes generate_text return: the empty text for None, the content itself
\* otherwise; it does not raise.
C23_EmptyOutputPassedThrough ==
    ( /\ g_call.pc = "done"
      /\ g_call.provider.kind = "responds"
      /\ ~Malformed(g_call.provider.response) ) =>
        LET content == g_call.provider.response.choices[1].content
        IN  (content = None \/ AllSpace(content)) =>
              /\ g_call.result.kind = "returned"
              /\ g_call.result.exc = NoExc
              /\ g_call.result.text = IF content = None THEN << >> ELSE content

\* C23 witness: a plain call whose response holds two whitespace characters.
C23_Witness ==
    /\ g_call.pc = "done"
    /\ ~g_call.stream
    /\ g_call.provider = Responds([choices |-> <<[content |-> <<"WS", "WS">>]>>])
    /\ g_call.result = Returned(<<"WS", "WS">>)

\* Invocation i as its own arguments and the outcomes of its own completion
\* calls determine it: the operation run alone from its start, each call
\* ending as the invocation's k-th call did.
RunAlone(i) ==
    LET o == outcomes[i]
        R[k \in 0..Len(o)] ==
            IF k = 0 THEN Enter(NewInvocation(inv[i].op, SharedArgs(i, inv[i].op)), 1)
            ELSE IF o[k].kind = "returned" THEN Resume(R[k - 1], o[k].text)
            ELSE Fail(R[k - 1], o[k].exc)
    IN  R[Len(o)]

\* The prompts of the requests sent for invocation i, in the order sent.
PromptsSentBy(i) ==
    LET By(r) == r.by = i
        mine == SelectSeq(sent, By)
    IN  [k \in 1..Len(mine) |-> mine[k].request.messages]

\* C25: with two invocations sharing the engine and the service, under
\* every interleaving: the service keeps the credential and the model name
\* it was constructed with, and every request carries them; the engine
\* keeps the service it was constructed with; and each invocation is what
\* its own arguments and the outcomes of its own calls make it, its
\* requests being its own prompts.
C25_SharedInvocationsIndependent ==
    /\ llm_service.constructed
    /\ llm_service.client.api_key = ResolvedKey(ctor.api_key)
    /\ llm_service.model_name = ctor.model_name
    /\ engine = CoTEngine_init(ServiceRef)
    /\ \A k \in DOMAIN sent :
          /\ sent[k].request.api_key = ResolvedKey(ctor.api_key)
          /\ sent[k].request.model = ctor.model_name
    /\ \A i \in DOMAIN inv :
          /\ PromptsSentBy(i) = inv[i].calls
          /\ \/ inv[i] = NewInvocation(inv[i].op, SharedArgs(i, inv[i].op))
             \/ inv[i] = RunAlone(i)

\* C25 witness: two generate_complete_story invocations whose calls were
\* sent alternately; the second one's planning call ended first; one
\* returned its own plan and story, the other failed.
C25_Witness ==
    /\ Len(sent) = 4
    /\ sent[1].by = "inv1" /\ sent[2].by = "inv2"
    /\ sent[3].by = "inv2" /\ sent[4].by = "inv1"
    /\ inv["inv1"].op = "generate_complete_story"
    /\ inv["inv2"].op = "generate_complete_story"
    /\ inv["inv1"].pc = "Returned"
    /\ inv["inv1"].result = <<<<"a">>, <<"FBh", "a", "PLh", "b">>>>
    /\ inv["inv1"].calls[2].fields["story_plan"] = <<"a">>
    /\ inv["inv2"].calls[2].fields["story_plan"] = <<"FBh", "a", "PLh", "b">>
    /\ inv["inv2"].pc = "Raised"

----------------------------------------------------------------------------
(* C26, C27: the presentation handlers (UiSpec).                            *)

\* The events whose handler is running or has just returned.
Live == {i \in DOMAIN h : h[i].pc # "served"}

\* The handler's first engine operation, the one outside the inner try
\* blocks, ended by raising.
FirstOperationRaised(e) ==
    \E i \in 1..Len(e.trace) :
        /\ e.trace[i].ev = "operation ended"
        /\ e.trace[i].raised
        /\ e.trace[i].op \in {"generate_story_plan", "generate_story_from_plan",
                              "get_input_refinement_suggestions"}

\* C26: a handler never propagates an exception.  No handler event ends with
\* an exception leaving the handler; when the engine operation the handler
\* depends on raised (StoryGenerationError, OpenAIConfigError or any other
\* Exception), the handler has returned, with an empty artifact where it
\* returns one, and with a message that shows that exception; a handler that
\* returned always returned a message; and whatever the earlier events came
\* to, the next event can be served.
C26_HandlersNeverPropagate ==
    /\ \A i \in DOMAIN h : h[i].pc # "propagated"
    /\ \A i \in Live :
          /\ FirstOperationRaised(h[i]) =>
                /\ h[i].pc = "returned"
                /\ h[i].result.status.text # << >>
                /\ h[i].result.status.exc = h[i].call.error
                /\ h[i].result.status.exc.type
                      \in {"StoryGenerationError", "OpenAIConfigError", "RuntimeError"}
                /\ h[i].handler # "get_suggestions_only" => h[i].result.artifact = << >>
          /\ h[i].pc = "returned" => h[i].result.status.text # << >>
    /\ (app.ready /\ app.launched /\ served < MaxEvents) =>
          ENABLED (\E handler \in Handlers, inputs \in FormInputs :
                      HandleEvent(handler, inputs))

\* An event that failed with an exception the engine does not raise itself
\* was served, and an event after it produced a story plan.
C26_Witness ==
    \E i, j \in DOMAIN h :
        /\ i < j
        /\ h[i].pc = "served"
        /\ h[i].exc_type = "OpenAIConfigError"
        /\ h[j].pc = "returned"
        /\ h[j].handler = "handle_generate_plan_click"
        /\ h[j].result.status.exc = NoExc
        /\ h[j].result.artifact = <<"b">>

\* The engine operations in the order the handlers' code awaits them.
PlanChain ==
    <<"generate_story_plan", "get_synopsis_elaborations", "get_character_profiles",
      "get_setting_details", "get_plot_twist_suggestions">>

StoryChain ==
    <<"generate_story_from_plan", "tune_story_style_tone",
      "get_story_branching_suggestions">>

ChainOf(handler) ==
    CASE handler = "handle_generate_plan_click" -> PlanChain
      [] handler = "handle_generate_story_from_plan_click" -> StoryChain
      [] OTHER -> <<"get_input_refinement_suggestions">>

PositionIn(chain, op) ==
    IF \E k \in 1..Len(chain) : chain[k] = op
    THEN CHOOSE k \in 1..Len(chain) : chain[k] = op
    ELSE 0

\* The completion calls of event e issued and not yet ended after its
\* first n steps.
InFlight(e, n) ==
    Cardinality({i \in 1..n : e.trace[i].ev = "issued"})
      - Cardinality({i \in 1..n : e.trace[i].ev = "ended"})

\* C27: within one handler invocation the engine operations are awaited one
\* after the other in the order of the code (the plan, then elaborations,
\* profiles, settings, twists), a completion call is issued only when every
\* earlier one has ended, and an operation's calls are issued only after the
\* operation before it is over: at most one call of an invocation is in
\* flight at any time, whatever the other invocations do.
C27_ChainedCallsSequential ==
    \A e \in Live :
        LET chain == ChainOf(h[e].handler)
            t == h[e].trace
        IN  /\ \A n \in 0..Len(t) : InFlight(h[e], n) \in {0, 1}
            /\ \A i \in 1..Len(t) :
                  t[i].ev = "issued" => (i = 1 \/ t[i - 1].ev # "issued")
            /\ \A i \in 1..Len(t) : PositionIn(chain, t[i].op) > 0
            /\ \A i, j \in 1..Len(t) :
                  i < j => PositionIn(chain, t[i].op) <= PositionIn(chain, t[j].op)
            /\ \A j \in 1..Len(t) :
                  (t[j].ev = "issued" /\ PositionIn(chain, t[j].op) > 1) =>
                      \E i \in 1..(j - 1) :
                          /\ t[i].ev = "operation ended"
                          /\ t[i].op = chain[1]
                          /\ ~t[i].raised
            /\ e \in Waiting <=> InFlight(h[e], Len(t)) = 1

\* The plan handler returned after all five operations issued their
\* completion calls, the plan's two and one for each enrichment, while the
\* handler of another event was waiting for its own call.
C27_Witness ==
    \E e \in Live :
        /\ h[e].pc = "returned"
        /\ h[e].handler = "handle_generate_plan_click"
        /\ Cardinality({i \in 1..Len(h[e].trace) : h[e].trace[i].ev = "issued"}) = 6
        /\ \A k \in 1..5 : \E i \in 1..Len(h[e].trace) :
              h[e].trace[i].ev = "issued" /\ h[e].trace[i].op = PlanChain[k]
        /\ Waiting \ {e} # {}

\* Two handlers are running and the calls of both wait at the provider.
TwoCallsAtTheProvider == Cardinality(Waiting) = 2

----------------------------------------------------------------------------
(* C31: what the two generating operations return (Spec).                   *)

ReviewedOps == {"generate_story_plan", "generate_story_from_plan"}

\* C31: whenever generate_story_plan or generate_story_from_plan returns,
\* the text it returns is neither empty nor whitespace only, whatever the
\* two completion calls returned.
C31_ReturnedTextNonEmpty ==
    \A i \in DOMAIN inv :
        (inv[i].op \in ReviewedOps /\ inv[i].pc = "Returned") =>
            /\ Len(inv[i].result) = 1
            /\ inv[i].result[1] # None
            /\ inv[i].result[1] # << >>
            /\ \E k \in 1..Len(inv[i].result[1]) : inv[i].result[1][k] # "WS"

\* C31 witness: the review reply has feedback and an empty revised section;
\* the operation returns the text of its first call.
C31_Witness ==
    \E i \in DOMAIN inv :
        /\ inv[i].op = "generate_story_from_plan"
        /\ inv[i].pc = "Returned"
        /\ Len(outcomes[i]) = 2
        /\ outcomes[i][1] = Returned(<<"WS", "a", "a", "WS">>)
        /\ outcomes[i][2] = Returned(<<"FBh", "a", "WS", "STh">>)
        /\ inv[i].result[1] # << >>

----------------------------------------------------------------------------
(* C32: the enrichment calls and what a handler returns (UiSpec).           *)

\* The operation-ended entries of the log of event e for operation op.
EndingsOf(e, op) ==
    {i \in 1..Len(e.trace) :
        e.trace[i].ev = "operation ended" /\ e.trace[i].op = op}

\* The handler of event e reached operation op: it awaited it, or the
\* operation raised before its first await.
Reached(e, op) ==
    \E i \in 1..Len(e.trace) :
        e.trace[i].op = op /\ e.trace[i].ev \in {"issued", "operation ended"}

\* C32: what a generating handler returns does not depend on its enrichment
\* calls.  Once generate_story_plan returned, the plan handler reaches each
\* of the four enrichment operations whichever of the earlier ones failed,
\* and returns exactly the text generate_story_plan returned, with a success
\* status; the story handler returns the cleaned text of
\* generate_story_from_plan (or the placeholder when that is empty), never
\* what the tuning or the branching returned.
C32_OutcomeIndependentOfEnrichment ==
    \A e \in Live :
        h[e].pc = "returned" =>
            /\ \A i \in EndingsOf(h[e], "generate_story_plan") :
                  ~h[e].trace[i].raised =>
                      /\ \A k \in 2..5 : Reached(h[e], PlanChain[k])
                      /\ h[e].result.artifact = h[e].trace[i].result
                      /\ h[e].result.status.exc = NoExc
                      /\ h[e].result.status.text[Len(h[e].result.status.text)]
                            = "Story plan done"
            /\ \A i \in EndingsOf(h[e], "generate_story_from_plan") :
                  ~h[e].trace[i].raised =>
                      /\ Reached(h[e], "get_story_branching_suggestions")
                      /\ Reached(h[e], "tune_story_style_tone")
                            \/ Strip(h[e].trace[i].result) = << >>
                      /\ h[e].result.status.exc = NoExc
                      /\ h[e].result.artifact =
                            IF clean_full_story_content(h[e].trace[i].result) = << >>
                            THEN <<"The full story is empty after parsing">>
                            ELSE clean_full_story_content(h[e].trace[i].result)

\* The plan handler returned the plan "b" although the elaborations and the
\* profiles failed, the plot twists having returned.
C32_Witness ==
    \E e \in Live :
        /\ h[e].pc = "returned"
        /\ h[e].handler = "handle_generate_plan_click"
        /\ h[e].result.artifact = <<"b">>
        /\ \E i \in EndingsOf(h[e], "get_synopsis_elaborations") : h[e].trace[i].raised
        /\ \E i \in EndingsOf(h[e], "get_character_profiles") : h[e].trace[i].raised
        /\ \E i \in EndingsOf(h[e], "get_plot_twist_suggestions") : ~h[e].trace[i].raised
        /\ \E i \in 1..Len(h[e].trace) :
              /\ h[e].trace[i].ev = "ended"
              /\ h[e].trace[i].op = "get_plot_twist_suggestions"
              /\ ~h[e].trace[i].raised

----------------------------------------------------------------------------
(* C33: the gates in front of the engine calls (UiSpec).                    *)

\* The service initialization at start-up failed: the credential was absent,
\* or building the service raised.
InitializationFailed == app.ready /\ app.initialization_error # NoInitError

CredentialAbsentAtStartup == app.ready /\ env_key \in {None, << >>}

\* Event e returned at once: no engine operation was reached, no completion
\* call issued, and the message shows no exception of the engine.
ReturnedWithoutCalls(e) ==
    /\ e.pc = "returned"
    /\ e.trace = << >>
    /\ e.call = NoCall

\* One of theme, genre, pokemon_names, synopsis is empty.
FieldMissing(e) ==
    \/ e.inputs.theme = << >>
    \/ e.inputs.genre = << >>
    \/ e.inputs.pokemon_names = << >>
    \/ e.inputs.synopsis = << >>

ValidationMessages ==
    {<<"Please fill in all required fields">>,
     <<"The story plan is empty">>,
     <<"The original input fields are incomplete">>}

\* When the initialization failed, every event returns the initialization
\* failure message; no handler ever waits for a call and no call is made.
GatedOnInitialization ==
    /\ CredentialAbsentAtStartup => InitializationFailed
    /\ InitializationFailed =>
          /\ ~engine.constructed
          /\ ~llm_service.constructed
          /\ Waiting = {}
          /\ g_done = 0
          /\ \A i \in DOMAIN h : h[i].pc \in {"returned", "served"}
          /\ \A i \in Live :
                /\ ReturnedWithoutCalls(h[i])
                /\ h[i].result.status.text[1] = "Service initialization failed: "
                /\ h[i].result.status.exc = app.initialization_error.exc

\* C33 as stated: every handler, the suggestions handler included, returns a
\* validation message without a completion call when one of the four fields
\* (or, for the story handler, the plan) is missing.
C33_HandlersGateEveryCall ==
    /\ GatedOnInitialization
    /\ \A i \in Live :
          (/\ ~InitializationFailed
           /\ \/ FieldMissing(h[i])
              \/ /\ h[i].handler = "handle_generate_story_from_plan_click"
                 /\ Strip(h[i].inputs.edited_story_plan) = << >>) =>
              /\ ReturnedWithoutCalls(h[i])
              /\ h[i].result.status.exc = NoExc

\* C33, amended: the two generating handlers return a validation message
\* without a completion call when one of the four fields (or, for the story
\* handler, the plan) is missing; get_suggestions_only does so when theme,
\* pokemon_names and synopsis are all missing.
C33_HandlersGateEveryCallAmended ==
    /\ GatedOnInitialization
    /\ \A i \in Live :
          ~InitializationFailed =>
              /\ (h[i].handler \in {"handle_generate_plan_click",
                                     "handle_generate_story_from_plan_click"}
                  /\ FieldMissing(h[i])) =>
                      /\ ReturnedWithoutCalls(h[i])
                      /\ h[i].result.artifact = << >>
                      /\ h[i].result.status.text \in ValidationMessages
                      /\ h[i].result.status.exc = NoExc
              /\ (h[i].handler = "handle_generate_story_from_plan_click"
                  /\ Strip(h[i].inputs.edited_story_plan) = << >>) =>
                      /\ ReturnedWithoutCalls(h[i])
                      /\ h[i].result.artifact = << >>
                      /\ h[i].result.status.text = <<"The story plan is empty">>
              /\ (h[i].handler = "get_suggestions_only"
                  /\ h[i].inputs.theme = << >> /\ h[i].inputs.pokemon_names = << >>
                  /\ h[i].inputs.synopsis = << >>) =>
                      /\ ReturnedWithoutCalls(h[i])
                      /\ h[i].result.status.text[1]
                            = "Please enter something to get suggestions"

\* The credential was absent at start-up, and the second event after it, a
\* story request with every field given, returned the failure message.
C33_Witness ==
    /\ CredentialAbsentAtStartup
    /\ served = 2
    /\ h[1].pc = "served"
    /\ h[2].handler = "handle_generate_story_from_plan_click"
    /\ ~FieldMissing(h[2])
    /\ Strip(h[2].inputs.edited_story_plan) # << >>
    /\ ReturnedWithoutCalls(h[2])
    /\ h[2].result.status.text[1] = "Service initialization failed: "
----------------------------------------------------------------------------
(* C34: the stage tag of the error that reaches the caller (Spec).          *)

\* The tag the claim gives to an original failure of the given type.
TagFor(type) ==
    CASE type = "OpenAIConfigError" -> "LLM configuration error"
      [] type = "KeyError" -> "Prompt formatting error"
      [] OTHER -> "Unexpected error"

\* C34: the tag of the StoryGenerationError an operation raises is given by
\* the kind of the original failure.  A completion call that raised
\* OpenAIConfigError gives "LLM configuration error"; a KeyError, from the
\* call or from formatting the prompt, gives "Prompt formatting error"; any
\* other exception gives "Unexpected error"; and an empty or whitespace-only
\* reply, for which the method raises StoryGenerationError itself inside the
\* same try block, gives "Unexpected error" with that inner
\* StoryGenerationError as the cause.
C34_StageTagByFailureKind ==
    \A i \in DOMAIN inv :
        LET s == inv[i]
            o == outcomes[i]
        IN  s.pc = "Raised" =>
              /\ s.error.type = "StoryGenerationError"
              /\ s.error.tag \in {"LLM configuration error",
                                  "Prompt formatting error", "Unexpected error"}
              /\ (Len(s.calls) = s.step /\ Len(o) = s.step /\ Last(o).kind = "raised") =>
                    s.error.tag = TagFor(Last(o).exc.type)
              /\ Len(s.calls) < s.step =>
                    s.error.tag = "Prompt formatting error"
              /\ (Len(s.calls) = s.step /\ Len(o) = s.step /\ Last(o).kind = "returned") =>
                    /\ AllSpace(Last(o).text)
                    /\ s.error.tag = "Unexpected error"
                    /\ s.error.cause.type = "StoryGenerationError"
                    /\ s.error.cause.tag = "Empty response"
                    /\ s.error.cause.cause = NoExc

\* C34 witness: the first call of generate_story_from_plan returned
\* whitespace; the operation raised "Unexpected error" with the
\* StoryGenerationError of the empty reply as its cause.
C34_Witness ==
    \E i \in DOMAIN inv :
        /\ inv[i].op = "generate_story_from_plan"
        /\ inv[i].pc = "Raised"
        /\ outcomes[i] = <<Returned(<<"WS">>)>>
        /\ inv[i].error.tag = "Unexpected error"
        /\ inv[i].error.cause.type = "StoryGenerationError"

----------------------------------------------------------------------------
(* C35: the revised-content marker before the feedback marker (ParserSpec). *)

\* The 1-based position of the first token t of raw, 0 when there is none.
FirstPosition(raw, t) ==
    LET hits == {k \in 1..Len(raw) : raw[k] = t}
    IN  IF hits = {} THEN 0 ELSE CHOOSE k \in hits : \A j \in hits : k <= j

\* The revised-content marker the parser looks for in raw: the outline's
\* when raw holds it, the full story's otherwise.
MarkerSought(raw) == IF FirstPosition(raw, "PLh") # 0 THEN "PLh" ELSE "STh"

\* Both markers are found, the revised-content marker first.
ContentBeforeFeedback(raw) ==
    /\ FirstPosition(raw, MarkerSought(raw)) # 0
    /\ FirstPosition(raw, "FBh") # 0
    /\ FirstPosition(raw, MarkerSought(raw)) < FirstPosition(raw, "FBh")

\* The whole trimmed text after the revised-content marker.
CandidateRevision(raw) ==
    Strip(SubSeq(raw, FirstPosition(raw, MarkerSought(raw)) + 1, Len(raw)))

\* C35: when both markers are found and the revised-content marker comes
\* before the feedback marker, the parser extracts no feedback and takes as
\* candidate revision the whole trimmed text after the revised-content
\* marker, feedback marker and feedback text included; the candidate is
\* revised_content, with an empty feedback, unless it begins with a sentinel
\* phrase, and then revised_content is the fallback content and the feedback
\* the parser's own message.
C35_ContentMarkerFirst ==
    (p_pc = "parsed" /\ ContentBeforeFeedback(p_raw)) =>
        LET candidate == CandidateRevision(p_raw)
        IN  /\ \E k \in 1..Len(candidate) : candidate[k] = "FBh"
            /\ IF candidate[1] \in {"S1", "S2"}
               THEN /\ p_out.revised_content = p_orig
                    /\ p_out.feedback = FeedbackNoRevisionNeeded
               ELSE /\ p_out.revised_content = candidate
                    /\ p_out.feedback = << >>

\* C35 witness: a revised outline, then the feedback marker and a feedback
\* text; all of it comes back as revised_content.
C35_Witness ==
    /\ p_pc = "parsed"
    /\ p_raw = <<"PLh", "a", "FBh", "a">>
    /\ p_orig = <<"o">>
    /\ p_out = ReviewerOutput(<< >>, <<"a", "FBh", "a">>)


(* C36: the story the story handler returns (UiSpec).                      *)

\* The tokens of text after position b, trimmed.
Dropped(text, b) == Strip(SubSeq(text, b + 1, Len(text)))

\* out is a stretch of text that ends where text ends or where a half-width
\* feedback marker follows.
CutAtFeedbackMarker(text, out) ==
    \E a \in 1..Len(text) : \E b \in a..Len(text) :
        /\ out = SubSeq(text, a, b)
        /\ Dropped(text, b) = << >> \/ Head(Dropped(text, b)) = "FBh"

\* C36: the story text handle_generate_story_from_plan_click returns never
\* holds the half-width feedback marker.  Once generate_story_from_plan
\* returned a story, the handler returns a non-empty text without the marker:
\* the fixed placeholder message when nothing is left of a story that held a
\* marker, and otherwise a stretch of the engine's story cut where the
\* feedback marker follows, everything after it dropped; a story without any
\* marker is returned trimmed.
C36_StoryWithoutFeedbackMarker ==
    \A e \in Live :
        (h[e].pc = "returned"
         /\ h[e].handler = "handle_generate_story_from_plan_click") =>
            \A i \in EndingsOf(h[e], "generate_story_from_plan") :
                ~h[e].trace[i].raised =>
                    LET story == h[e].trace[i].result
                        out == h[e].result.artifact
                        held == {story[k] : k \in 1..Len(story)}
                    IN  /\ out # << >>
                        /\ \A k \in 1..Len(out) : out[k] # "FBh"
                        /\ IF out = <<"The full story is empty after parsing">>
                           THEN held \cap {"FBh", "STh"} # {}
                           ELSE CutAtFeedbackMarker(story, out)
                        /\ held \cap {"FBh", "STh"} = {} => out = Strip(story)

\* The engine's story was "b", a line break, the feedback marker and "a";
\* the handler returned "b".
C36_Witness ==
    \E e \in Live :
        /\ h[e].pc = "returned"
        /\ h[e].handler = "handle_generate_story_from_plan_click"
        /\ h[e].result.artifact = <<"b">>
        /\ \E i \in EndingsOf(h[e], "generate_story_from_plan") :
              /\ ~h[e].trace[i].raised
              /\ h[e].trace[i].result = <<"b", "NL", "FBh", "a">>

\* The engine's story held the feedback marker and its text only; the
\* handler returned the placeholder message.
C36_PlaceholderReturned ==
    \E e \in Live :
        /\ h[e].pc = "returned"
        /\ h[e].handler = "handle_generate_story_from_plan_click"
        /\ h[e].result.artifact = <<"The full story is empty after parsing">>
        /\ \E i \in EndingsOf(h[e], "generate_story_from_plan") :
              /\ ~h[e].trace[i].raised
              /\ h[e].trace[i].result = <<"FBh", "a">>

----------------------------------------------------------------------------
(* C28: the review parses of invocations sharing one engine (SharedSpec).   *)

\* The invocations whose review method has parsed a reviewer text.
Reviewed == {i \in DOMAIN inv : inv[i].review # NoOutput}

\* What generate_text returned to invocation i: the draft first, the
\* reviewer's text second.
DraftOf(i) == outcomes[i][1].text

ReviewTextOf(i) == outcomes[i][2].text

\* Both recognised markers in the documented order: the feedback marker,
\* then the revised-content marker.
DocumentedOrder(raw) ==
    /\ FirstPosition(raw, "FBh") # 0
    /\ FirstPosition(raw, MarkerSought(raw)) # 0
    /\ FirstPosition(raw, "FBh") < FirstPosition(raw, MarkerSought(raw))

\* The ReviewerOutput the specification gives for a raw text in the
\* documented order and a fallback content.
DocumentedOutput(raw, fallback) ==
    LET fb == FirstPosition(raw, "FBh")
        cm == FirstPosition(raw, MarkerSought(raw))
        between == Strip(SubSeq(raw, fb + 1, cm - 1))
        after == Strip(SubSeq(raw, cm + 1, Len(raw)))
    IN  IF after = << >> THEN ReviewerOutput(between, fallback)
        ELSE IF after[1] \in {"S1", "S2"}
        THEN ReviewerOutput(IF between = << >> THEN FeedbackNoRevisionNeeded
                                               ELSE between,
                            fallback)
        ELSE ReviewerOutput(between, after)

\* C28: under every interleaving of two invocations on one engine, a
\* review whose raw text holds both markers in the documented order is
\* what that raw text and the draft under review alone determine; hence
\* two reviews of the same raw text and the same draft have the same
\* feedback and the same revised_content, whichever operation made them,
\* whatever its other arguments, and whichever was parsed first.
C28_ParserDeterministic ==
    \A i \in Reviewed :
        /\ Len(outcomes[i]) = 2
        /\ outcomes[i][1].kind = "returned"
        /\ outcomes[i][2].kind = "returned"
        /\ DocumentedOrder(ReviewTextOf(i)) =>
              /\ inv[i].review = DocumentedOutput(ReviewTextOf(i), DraftOf(i))
              /\ \A j \in Reviewed :
                    ( /\ ReviewTextOf(j) = ReviewTextOf(i)
                      /\ DraftOf(j) = DraftOf(i) ) =>
                        /\ inv[j].review.feedback = inv[i].review.feedback
                        /\ inv[j].review.revised_content
                             = inv[i].review.revised_content

\* C28 witness: generate_story_plan and generate_story_from_plan, with
\* different arguments, got the same draft and the same reviewer text, and
\* hold the same ReviewerOutput.
C28_Witness ==
    /\ inv["inv1"].op = "generate_story_plan"
    /\ inv["inv2"].op = "generate_story_from_plan"
    /\ inv["inv1"].args # inv["inv2"].args
    /\ outcomes["inv1"] = <<Returned(<<"a">>), Returned(<<"FBh", "a", "PLh", "b">>)>>
    /\ outcomes["inv2"] = outcomes["inv1"]
    /\ inv["inv1"].review = ReviewerOutput(<<"a">>, <<"b">>)
    /\ inv["inv2"].review = ReviewerOutput(<<"a">>, <<"b">>)

====
